---- MODULE Spec2Model ----
(***************************************************************************)
(* A model of WgpuRenderer (render/render_graph/renderers/wgpu_renderer.rs) *)
(* : the resource registry, layout resolution in create_render_pipeline,   *)
(* the pipeline / bind-group caches and the frame executor.                 *)
(*                                                                         *)
(* The handlers are written as operators over a record r that holds the    *)
(* fields of the renderer (and the world's pipeline storage); an action    *)
(* applies one handler to the current fields and commits the result.  A    *)
(* Rust panic is the field r.panic: once it is set the rest of the handler *)
(* is skipped and the machine stops (fatal /= "").                         *)
(***************************************************************************)
EXTENDS Integers, Sequences, FiniteSets, TLC

\* ------------------------------------------------------------------ bounds

\* handles the callers may have created before the model stops creating
MaxHandles == 2
\* handles the resource providers and draw targets may have created
MaxProvided == 1
\* descriptor edits the application makes
MaxEdits == 1
\* commands one encoder may record before the model stops recording
MaxCommands == 1
\* calls of resize a provider's hook makes inside one initialize or resize
MaxNested == 1

\* ------------------------------------------------------------ input domains

Sizes == {1, 2}
\* wgpu::BufferUsage bit sets
UniformUsage == {"UNIFORM", "COPY_DST"}
Usages == {UniformUsage, {"VERTEX"}}
Datas == {[i \in 1..n |-> 0] : n \in Sizes}
Entities == {"e1", "e2"}
\* DynamicUniformBufferInfo: the offsets of the entities that have one
Info1 == [offsets |-> [e \in {"e1"} |-> 256]]
TextureDescriptors == {"td"}

\* --------------------------------------------------------------- Rust types

None == [tag |-> "None"]
Some(v) == [tag |-> "Some", value |-> v]

\* the elements of a Vec
Range(s) == {s[i] : i \in DOMAIN s}

\* HashMap
EmptyMap == [k \in {} |-> None]
Insert(m, k, v) == [x \in (DOMAIN m) \cup {k} |-> IF x = k THEN v ELSE m[x]]
Remove(m, k) == [x \in (DOMAIN m) \ {k} |-> m[x]]
Get(m, k) == IF k \in DOMAIN m THEN Some(m[k]) ELSE None

\* ResourceInfo
BufferInfo(buffer_usage, size) ==
    [tag |-> "Buffer", buffer_usage |-> buffer_usage, size |-> size]
InstanceBufferInfo(buffer_usage, size, count, mesh_id) ==
    [tag |-> "InstanceBuffer", buffer_usage |-> buffer_usage, size |-> size,
     count |-> count, mesh_id |-> mesh_id]
TextureInfo == [tag |-> "Texture"]

\* GPU objects the device hands out
GpuBuffer(size, usage) == [size |-> size, usage |-> usage]
GpuTextureView(descriptor) == [texture |-> descriptor]

VARIABLES
    \* WgpuRenderer
    surface,                      \* Option<Surface>
    encoder,                      \* Option<CommandEncoder>: the commands recorded so far
    swap_chain_descriptor,        \* its width and height
    render_pipelines,             \* HashMap<Handle<PipelineDescriptor>, RenderPipeline>
    buffers,                      \* HashMap<RenderResource, Buffer>
    textures,                     \* HashMap<RenderResource, TextureView>
    resource_info,                \* HashMap<RenderResource, ResourceInfo>
    bind_groups,                  \* HashMap<u64, BindGroupInfo>
    bind_group_layouts,           \* HashMap<u64, BindGroupLayout>
    dynamic_uniform_buffer_info,  \* HashMap<RenderResource, DynamicUniformBufferInfo>
    render_resources,             \* RenderResources: name table and handle counter
    \* World resources and the render graph
    pipeline_storage,             \* AssetStorage<PipelineDescriptor>
    swap_chain,                   \* Option<SwapChain>, stored in the World by resize
    queued_textures,              \* RenderGraph::queued_textures
    \* control
    pc,                           \* where the running handler stands
    render_pass,                  \* the open render pass: what was bound on it
    fatal,                        \* "" or the message of the panic that stopped the program
    \* history
    call,                         \* the last handler call: its name, arguments and result
    returned,                     \* the handles the creating calls returned, in order
    held,                         \* the handles returned to the renderer's callers
    removed,                      \* the handles remove_buffer or remove_texture was called on
    created,                      \* how many GPU objects the device made, per cache key
    edits,                        \* how often the application edited a descriptor
    log                           \* what the running initialize, resize or
                                  \* process_render_graph call did so far, in order

vars == <<surface, encoder, swap_chain_descriptor, render_pipelines, buffers, textures,
          resource_info, bind_groups, bind_group_layouts, dynamic_uniform_buffer_info,
          render_resources, pipeline_storage, swap_chain, queued_textures, pc,
          render_pass, fatal, call, returned, held, removed, created,
          edits, log>>

\* ---------------------------------------------------------------- handlers

\* the renderer, and the parts of the World and the graph it works on, as the
\* handlers see them
self ==
    [surface |-> surface, encoder |-> encoder,
     swap_chain_descriptor |-> swap_chain_descriptor,
     render_pipelines |-> render_pipelines, buffers |-> buffers,
     textures |-> textures, resource_info |-> resource_info,
     bind_groups |-> bind_groups, bind_group_layouts |-> bind_group_layouts,
     dynamic_uniform_buffer_info |-> dynamic_uniform_buffer_info,
     render_resources |-> render_resources,
     pipeline_storage |-> pipeline_storage, swap_chain |-> swap_chain,
     queued_textures |-> queued_textures, render_pass |-> render_pass,
     returned |-> returned, held |-> held, removed |-> removed, created |-> created,
     edits |-> edits, log |-> log,
     panic |-> "", ret |-> None]

Panic(r, msg) == [r EXCEPT !.panic = msg]

\* the running call has done `event`
Log(r, event) == [r EXCEPT !.log = Append(@, event)]
\* a call made by the application starts
Called(r) == [r EXCEPT !.log = <<>>]

\* RenderResources::get_next_resource: the counter's value, then the counter moves on
get_next_resource(r) ==
    [r EXCEPT !.render_resources.resource_index = @ + 1,
              !.ret = r.render_resources.resource_index]

\* a creating call hands `resource` to its caller
Return(r, resource) ==
    [r EXCEPT !.ret = resource, !.returned = Append(@, resource)]

add_resource_info(r, resource, info) ==
    [r EXCEPT !.resource_info = Insert(@, resource, info)]

create_buffer_with_data(r, data, buffer_usage) ==
    LET r1 == get_next_resource(r)
        resource == r1.ret
        buffer == GpuBuffer(Len(data), buffer_usage)
        r2 == add_resource_info(r1, resource, BufferInfo(buffer_usage, Len(data)))
    IN  Return([r2 EXCEPT !.buffers = Insert(@, resource, buffer)], resource)

\* a create_buffer that forgets the ResourceInfo record
create_buffer_without_info(r, size, buffer_usage) ==
    LET r1 == get_next_resource(r)
    IN  Return([r1 EXCEPT !.buffers = Insert(@, r1.ret, GpuBuffer(size, buffer_usage))],
               r1.ret)

create_buffer(r, size, buffer_usage) ==
    LET buffer == GpuBuffer(size, buffer_usage)
        r1 == get_next_resource(r)
        resource == r1.ret
        r2 == add_resource_info(r1, resource, BufferInfo(buffer_usage, size))
    IN  Return([r2 EXCEPT !.buffers = Insert(@, resource, buffer)], resource)

\* a create_instance_buffer that takes the mesh id for the handle
create_instance_buffer_by_mesh(r, mesh_id, size, count, buffer_usage) ==
    LET r2 == add_resource_info(r, mesh_id,
                  InstanceBufferInfo(buffer_usage, size, count, mesh_id))
    IN  Return([r2 EXCEPT !.buffers =
                    Insert(@, mesh_id, GpuBuffer(size * count, buffer_usage))],
               mesh_id)

create_instance_buffer(r, mesh_id, size, count, buffer_usage) ==
    LET buffer == GpuBuffer(size * count, buffer_usage)
        r1 == get_next_resource(r)
        resource == r1.ret
        r2 == add_resource_info(r1, resource,
                  InstanceBufferInfo(buffer_usage, size, count, mesh_id))
    IN  Return([r2 EXCEPT !.buffers = Insert(@, resource, buffer)], resource)

create_instance_buffer_with_data(r, mesh_id, data, size, count, buffer_usage) ==
    LET buffer == GpuBuffer(Len(data), buffer_usage)
        r1 == get_next_resource(r)
        resource == r1.ret
        r2 == add_resource_info(r1, resource,
                  InstanceBufferInfo(buffer_usage, size, count, mesh_id))
    IN  Return([r2 EXCEPT !.buffers = Insert(@, resource, buffer)], resource)

get_resource_info(r, resource) == Get(r.resource_info, resource)

\* a remove_buffer that leaves the ResourceInfo record behind
remove_buffer_keeping_info(r, resource) ==
    [r EXCEPT !.buffers = Remove(@, resource)]

remove_buffer(r, resource) ==
    [r EXCEPT !.buffers = Remove(@, resource),
              !.resource_info = Remove(@, resource)]

create_buffer_mapped(r, size, buffer_usage) ==
    LET buffer == GpuBuffer(size, buffer_usage)
        r1 == get_next_resource(r)
        resource == r1.ret
        r2 == add_resource_info(r1, resource, BufferInfo(buffer_usage, size))
    IN  Return([r2 EXCEPT !.buffers = Insert(@, resource, buffer)], resource)

copy_buffer_to_buffer(r, source_buffer, destination_buffer) ==
    IF source_buffer \notin DOMAIN r.buffers \/ destination_buffer \notin DOMAIN r.buffers
    THEN Panic(r, "copy_buffer_to_buffer: no such buffer")
    ELSE IF r.encoder = None
    THEN Panic(r, "copy_buffer_to_buffer: no encoder")
    ELSE [r EXCEPT !.encoder = Some(Append(@.value, "copy_buffer_to_buffer"))]

\* a lookup that finds no dynamic info
get_dynamic_uniform_buffer_info_of_none(r, resource) == None

get_dynamic_uniform_buffer_info(r, resource) ==
    Get(r.dynamic_uniform_buffer_info, resource)

add_dynamic_uniform_buffer_info(r, resource, info) ==
    [r EXCEPT !.dynamic_uniform_buffer_info = Insert(@, resource, info)]

\* a create_texture that numbers the textures on their own
create_texture_numbered(r, texture_descriptor) ==
    LET resource == Cardinality(DOMAIN r.textures)
    IN  Return([r EXCEPT !.textures =
                    Insert(@, resource, GpuTextureView(texture_descriptor))],
               resource)

create_texture(r, texture_descriptor) ==
    LET r1 == get_next_resource(r)
        resource == r1.ret
    IN  Return([r1 EXCEPT !.textures =
                    Insert(@, resource, GpuTextureView(texture_descriptor))],
               resource)

\* a create_texture_with_data that leaves the copy out when no encoder is stored
create_texture_with_data_unrecorded(r, texture_descriptor, bytes) ==
    LET r0 == IF bytes = None \/ r.encoder = None THEN r
              ELSE [r EXCEPT !.encoder = Some(Append(@.value, "copy_buffer_to_texture"))]
        r1 == get_next_resource(r0)
    IN  Return(add_resource_info(r1, r1.ret, TextureInfo), r1.ret)

\* the texture view is made and dropped; only the ResourceInfo record is kept
create_texture_with_data(r, texture_descriptor, bytes) ==
    LET r0 == IF bytes = None THEN r
              ELSE IF r.encoder = None
              THEN Panic(r, "create_texture_with_data: no encoder")
              ELSE [r EXCEPT !.encoder = Some(Append(@.value, "copy_buffer_to_texture"))]
        r1 == get_next_resource(r0)
        resource == r1.ret
    IN  IF r0.panic # "" THEN r0
        ELSE Return(add_resource_info(r1, resource, TextureInfo), resource)

get_named_resource(r, name) == Get(r.render_resources.name_to_resource, name)

\* a set_named_resource that forgets the name
set_named_resource_forgetting(r, name, resource) == r

set_named_resource(r, name, resource) ==
    [r EXCEPT !.render_resources.name_to_resource = Insert(@, name, resource)]

\* a remove_texture that also forgets the names registered to the handle
remove_texture_and_names(r, resource) ==
    [r EXCEPT !.textures = Remove(@, resource),
              !.resource_info = Remove(@, resource),
              !.render_resources.name_to_resource =
                  [name \in {n \in DOMAIN @ : @[n] # resource} |-> @[name]]]

remove_texture(r, resource) ==
    [r EXCEPT !.textures = Remove(@, resource),
              !.resource_info = Remove(@, resource)]

\* --------------------------------------------------------- pipeline layouts

\* BindType
Uniform(dynamic, size) == [tag |-> "Uniform", dynamic |-> dynamic, size |-> size]
StorageBuffer(dynamic, readonly) ==
    [tag |-> "Buffer", dynamic |-> dynamic, readonly |-> readonly]

Binding(name, index, bind_type) ==
    [name |-> name, index |-> index, bind_type |-> bind_type]
\* BindGroup::new: the hash is not computed yet
BindGroup(index, bindings) == [index |-> index, bindings |-> bindings, hash |-> None]

\* PipelineLayoutType
Manual(layout) == [tag |-> "Manual", layout |-> Some(layout)]
Reflected(layout) == [tag |-> "Reflected", layout |-> layout]

\* PipelineDescriptor::get_layout and get_layout_mut
get_layout(pipeline_descriptor) == pipeline_descriptor.layout.layout

\* BindType::get_uniform_size
get_uniform_size(bind_type) ==
    IF bind_type.tag = "Uniform" THEN Some(bind_type.size) ELSE None

\* The structural hash of a binding list: an injective code of the names, indices
\* and bind types, so that equal hashes mean equal structure.
BindingNames == <<"Transform", "Camera", "Lights">>
NameCode(name) == CHOOSE i \in 1..Len(BindingNames) : BindingNames[i] = name
BindTypeCode(bind_type) ==
    CASE bind_type.tag = "Uniform" ->
             8 + 2 * bind_type.size + (IF bind_type.dynamic THEN 1 ELSE 0)
      [] bind_type.tag = "Buffer" ->
             2 + (IF bind_type.readonly THEN 2 ELSE 0)
               + (IF bind_type.dynamic THEN 1 ELSE 0)
      [] OTHER -> 0
HashBinding(binding) ==
    (BindTypeCode(binding.bind_type) * 4 + binding.index) * 8 + NameCode(binding.name)
RECURSIVE HashBindings(_)
HashBindings(bindings) ==
    IF bindings = <<>> THEN 0
    ELSE HashBindings(SubSeq(bindings, 1, Len(bindings) - 1)) * 513
         + HashBinding(bindings[Len(bindings)]) + 1

\* BindGroup::get_hash and get_or_update_hash: the hash is stored in the bind group
\* the first time it is asked for
get_hash(bind_group) == bind_group.hash
get_or_update_hash(bind_group) ==
    IF bind_group.hash = None
    THEN [bind_group EXCEPT !.hash = Some(HashBindings(bind_group.bindings))]
    ELSE bind_group

\* Shader::reflect_layout: the bind groups a shader declares; None for a shader
\* without reflection data
reflect_layout(shader) ==
    CASE shader = "vs_transform" ->
             Some([bind_groups |->
                 <<BindGroup(0, <<Binding("Transform", 0, Uniform(FALSE, 2))>>)>>])
      [] shader = "vs_mesh" ->
             Some([bind_groups |->
                 <<BindGroup(1, <<Binding("Transform", 0, Uniform(FALSE, 2))>>),
                   BindGroup(0, <<Binding("Camera", 0, Uniform(FALSE, 1))>>)>>])
      [] shader = "fs_mesh" ->
             Some([bind_groups |->
                 <<BindGroup(1, <<Binding("Transform", 0, Uniform(FALSE, 2)),
                                  Binding("Lights", 1, StorageBuffer(TRUE, TRUE))>>)>>])
      [] OTHER -> None

\* PipelineLayout::from_shader_layouts: the bind groups of all stages, merged by
\* group index and binding index, sorted by group index
RECURSIVE AllGroups(_)
AllGroups(layouts) ==
    IF layouts = <<>> THEN <<>>
    ELSE Head(layouts).bind_groups \o AllGroups(Tail(layouts))
MergeBindings(have, new) ==
    have \o SelectSeq(new, LAMBDA b : \A i \in DOMAIN have : have[i].index # b.index)
RECURSIVE MergeGroups(_, _)
MergeGroups(groups, merged) ==
    IF groups = <<>> THEN merged
    ELSE LET g == Head(groups)
         IN  MergeGroups(Tail(groups),
                 IF g.index \in DOMAIN merged
                 THEN [merged EXCEPT ![g.index].bindings = MergeBindings(@, g.bindings)]
                 ELSE Insert(merged, g.index, g))
RECURSIVE SortByIndex(_)
SortByIndex(m) ==
    IF DOMAIN m = {} THEN <<>>
    ELSE LET i == CHOOSE i \in DOMAIN m : \A j \in DOMAIN m : i <= j
         IN  <<m[i]>> \o SortByIndex(Remove(m, i))
from_shader_layouts(layouts) ==
    [bind_groups |-> SortByIndex(MergeGroups(AllGroups(layouts), EmptyMap))]

\* impl From<&BindType> for wgpu::BindingType
BindingType(bind_type) ==
    CASE bind_type.tag = "Uniform" ->
             [tag |-> "UniformBuffer", dynamic |-> bind_type.dynamic]
      [] bind_type.tag = "Buffer" ->
             [tag |-> "StorageBuffer", dynamic |-> bind_type.dynamic,
              readonly |-> bind_type.readonly]
      [] OTHER -> [tag |-> bind_type.tag]

Bump(m, k) == Insert(m, k, IF k \in DOMAIN m THEN m[k] + 1 ELSE 1)

\* a test that takes every reflected layout, resolved or not, for pending
NeedsReflectionAgain(pipeline_descriptor) ==
    pipeline_descriptor.layout.tag = "Reflected"

\* create_render_pipeline, the test of line 93: the layout is still to be reflected
NeedsReflection(pipeline_descriptor) ==
    pipeline_descriptor.layout = Reflected(None)

\* a pass that sets no flag
SetDynamicNever(r, binding) == binding

\* a pass that makes every Uniform binding with a registered name dynamic
SetDynamicIfNamed(r, binding) ==
    IF /\ binding.bind_type.tag = "Uniform"
       /\ Get(r.render_resources.name_to_resource, binding.name) # None
    THEN [binding EXCEPT !.bind_type.dynamic = TRUE]
    ELSE binding

\* a Uniform binding is made dynamic if its name is registered to a resource that
\* has a dynamic uniform buffer info
SetDynamic(r, binding) ==
    IF /\ binding.bind_type.tag = "Uniform"
       /\ get_named_resource(r, binding.name) # None
       /\ get_named_resource(r, binding.name).value
              \in DOMAIN r.dynamic_uniform_buffer_info
    THEN [binding EXCEPT !.bind_type.dynamic = TRUE]
    ELSE binding

SetDynamicInGroup(r, bind_group) ==
    [bind_group EXCEPT !.bindings =
        [b \in DOMAIN bind_group.bindings |-> SetDynamic(r, bind_group.bindings[b])]]

\* the shaders of a descriptor, vertex stage first
Stages(vertex_shader, fragment_shader) ==
    IF fragment_shader = None THEN <<vertex_shader>>
    ELSE <<vertex_shader, fragment_shader.value>>

\* a resolution whose dynamic-flag pass runs on explicit layouts too
ResolveLayoutFlaggingAll(r, pipeline_descriptor, vertex_shader, fragment_shader) ==
    LET stages == Stages(vertex_shader, fragment_shader)
        layouts == [i \in DOMAIN stages |-> reflect_layout(stages[i])]
        layout == IF NeedsReflection(pipeline_descriptor)
                  THEN from_shader_layouts([i \in DOMAIN stages |-> layouts[i].value])
                  ELSE pipeline_descriptor.layout.layout.value
        flagged == [bind_groups |-> [g \in DOMAIN layout.bind_groups |->
                       SetDynamicInGroup(r, layout.bind_groups[g])]]
    IN  IF NeedsReflection(pipeline_descriptor)
           /\ \E i \in DOMAIN stages : layouts[i] = None
        THEN Panic(r, "reflect_layout: unwrap on None")
        ELSE [r EXCEPT !.ret =
                 [descriptor |-> [pipeline_descriptor EXCEPT
                                     !.layout.layout = Some(flagged)],
                  reflections |-> IF NeedsReflection(pipeline_descriptor)
                                  THEN Len(stages) ELSE 0,
                  flag_pass |-> TRUE]]

\* create_render_pipeline, lines 93-128: the descriptor with its layout resolved.
\* ret: the descriptor, how many shaders were reflected, whether the dynamic
\* flags were set
ResolveLayout(r, pipeline_descriptor, vertex_shader, fragment_shader) ==
    LET stages == Stages(vertex_shader, fragment_shader)
        layouts == [i \in DOMAIN stages |-> reflect_layout(stages[i])]
        layout == from_shader_layouts([i \in DOMAIN stages |-> layouts[i].value])
        flagged == [bind_groups |-> [g \in DOMAIN layout.bind_groups |->
                       SetDynamicInGroup(r, layout.bind_groups[g])]]
    IN  IF ~NeedsReflection(pipeline_descriptor)
        THEN [r EXCEPT !.ret = [descriptor |-> pipeline_descriptor,
                                reflections |-> 0, flag_pass |-> FALSE]]
        ELSE IF \E i \in DOMAIN stages : layouts[i] = None
        THEN Panic(r, "reflect_layout: unwrap on None")
        ELSE [r EXCEPT !.ret =
                 [descriptor |-> [pipeline_descriptor EXCEPT
                                     !.layout = Reflected(Some(flagged))],
                  reflections |-> Len(stages), flag_pass |-> TRUE]]

\* the BindGroupLayout object the device makes for a bind group
GpuBindGroupLayout(bind_group) ==
    [bindings |-> [b \in DOMAIN bind_group.bindings |->
        [binding |-> bind_group.bindings[b].index,
         ty |-> BindingType(bind_group.bindings[b].bind_type)]]]

\* create_render_pipeline, lines 134-154: a layout object for every bind group
\* whose hash has none yet
RECURSIVE SetupBindGroupLayouts(_, _)
SetupBindGroupLayouts(r, bind_groups_left) ==
    IF bind_groups_left = <<>> THEN r
    ELSE LET bind_group == Head(bind_groups_left)
             bind_group_id == get_hash(bind_group).value
         IN  SetupBindGroupLayouts(
                 IF bind_group_id \in DOMAIN r.bind_group_layouts THEN r
                 ELSE [r EXCEPT
                          !.bind_group_layouts =
                              Insert(@, bind_group_id, GpuBindGroupLayout(bind_group)),
                          !.created.bind_group_layouts = Bump(@, bind_group_id)],
                 Tail(bind_groups_left))

\* WgpuRenderer::create_render_pipeline.  ret: the descriptor as the call leaves
\* it, the RenderPipeline object, and what ResolveLayout did
create_render_pipeline(r, pipeline_descriptor, vertex_shader, fragment_shader) ==
    LET r1 == ResolveLayout(r, pipeline_descriptor, vertex_shader, fragment_shader)
        resolved == r1.ret.descriptor
        layout == get_layout(resolved).value
        hashed == [bind_groups |-> [g \in DOMAIN layout.bind_groups |->
                      get_or_update_hash(layout.bind_groups[g])]]
        r2 == SetupBindGroupLayouts(r1, hashed.bind_groups)
        pipeline ==
            [layout |-> [g \in DOMAIN hashed.bind_groups |->
                            r2.bind_group_layouts[get_hash(hashed.bind_groups[g]).value]],
             vertex_stage |-> vertex_shader, fragment_stage |-> fragment_shader,
             primitive_topology |-> pipeline_descriptor.primitive_topology]
    IN  IF r1.panic # "" THEN r1
        ELSE IF get_layout(resolved) = None
        THEN Panic(r1, "get_layout_mut: unwrap on None")
        ELSE [r2 EXCEPT !.ret =
                 [descriptor |-> [resolved EXCEPT !.layout.layout = Some(hashed)],
                  pipeline |-> pipeline,
                  reflections |-> r1.ret.reflections,
                  flag_pass |-> r1.ret.flag_pass]]

\* ------------------------------------------------------ bind-group cache

\* setup_bind_group, lines 309-336: the resource of every binding; a Uniform
\* binding whose name is not registered gets a new buffer, registered under
\* the name.  ret: unset_uniforms and binding_resources
RECURSIVE ResolveBindingResources(_, _, _, _)
ResolveBindingResources(r, bindings, unset_uniforms, binding_resources) ==
    IF bindings = <<>>
    THEN [r EXCEPT !.ret = [unset_uniforms |-> unset_uniforms,
                            binding_resources |-> binding_resources]]
    ELSE LET binding == Head(bindings)
             named == get_named_resource(r, binding.name)
             r1 == create_buffer(r, get_uniform_size(binding.bind_type).value,
                                 UniformUsage)
             r2 == set_named_resource(r1, binding.name, r1.ret)
         IN  IF named # None
             THEN ResolveBindingResources(r, Tail(bindings), unset_uniforms,
                                          Append(binding_resources, named.value))
             ELSE IF binding.bind_type.tag = "Uniform"
             THEN ResolveBindingResources(r2, Tail(bindings),
                                          Append(unset_uniforms, binding.name),
                                          Append(binding_resources, r1.ret))
             ELSE Panic(r, "unsupported bind type")

\* a binding built as a buffer binding whatever its bind type
BuildBindingOfAnyType(r, binding, resource) ==
    LET resource_info_ == get_resource_info(r, resource)
    IN  IF resource_info_ = None
        THEN [panic |-> "resource_info.get: unwrap on None"]
        ELSE [panic |-> "", binding |-> binding.index, buffer |-> resource,
              range |-> <<0, 0>>]

\* setup_bind_group, lines 343-369: the wgpu::Binding of one binding, or the
\* panic that building it raises
BuildBinding(r, binding, resource) ==
    LET resource_info_ == get_resource_info(r, resource)
    IN  IF resource_info_ = None
        THEN [panic |-> "resource_info.get: unwrap on None"]
        ELSE IF binding.bind_type.tag # "Uniform"
        THEN [panic |-> "unsupported bind type"]
        ELSE IF resource_info_.value.tag # "Buffer"
        THEN [panic |-> "expected a Buffer resource"]
        ELSE IF resource \notin DOMAIN r.buffers
        THEN [panic |-> "buffers.get: unwrap on None"]
        ELSE [panic |-> "", binding |-> binding.index, buffer |-> resource,
              range |-> <<0, resource_info_.value.size>>]

\* WgpuRenderer::setup_bind_group.  ret: the bind group's hash
setup_bind_group(r, bind_group) ==
    IF get_hash(bind_group) = None THEN Panic(r, "get_hash: unwrap on None")
    ELSE
    LET bind_group_id == get_hash(bind_group).value
        r1 == ResolveBindingResources(r, bind_group.bindings, <<>>, <<>>)
        bindings == [b \in DOMAIN bind_group.bindings |->
                        BuildBinding(r1, bind_group.bindings[b],
                                     r1.ret.binding_resources[b])]
        failed == {b \in DOMAIN bindings : bindings[b].panic # ""}
        first == CHOOSE b \in failed : \A c \in failed : b <= c
        object == [layout |-> r1.bind_group_layouts[bind_group_id],
                   bindings |-> bindings]
    IN  IF bind_group_id \in DOMAIN r.bind_groups THEN [r EXCEPT !.ret = bind_group_id]
        ELSE IF r1.panic # "" THEN r1
        ELSE IF failed # {} THEN Panic(r1, bindings[first].panic)
        ELSE IF bind_group_id \notin DOMAIN r1.bind_group_layouts
        THEN Panic(r1, "bind_group_layouts.get: unwrap on None")
        ELSE [r1 EXCEPT
                 !.bind_groups =
                     Insert(@, bind_group_id,
                            [bind_group |-> object,
                             unset_uniforms |-> r1.ret.unset_uniforms]),
                 !.created.bind_groups = Bump(@, bind_group_id),
                 !.ret = bind_group_id]

\* ------------------------------------------------------- frame executor

\* the render graph
ResourceProviders == <<"rp1", "rp2">>
PipelineOrders == {<<"p1", "p2">>, <<"p2", "p1">>}
PassNames == <<"main", "ui">>
PassDescriptors ==
    [main |-> [color_attachments |->
                   <<[attachment |-> "swap_chain", resolve_target |-> None]>>,
               depth_stencil_attachment |-> Some([attachment |-> "depth"])],
     ui |-> [color_attachments |->
                 <<[attachment |-> "swap_chain", resolve_target |-> None]>>,
             depth_stencil_attachment |-> None]]
\* no pipeline is assigned to the pass "ui"
PassPipelines == [main |-> <<"p1", "p2">>]
\* the draw targets registered in the graph
DrawTargets == {"meshes", "ui"}
SWAP_CHAIN == "swap_chain"
\* the window's sizes
Extents == {[width |-> 800, height |-> 600], [width |-> 1024, height |-> 768]}

\* a tick that leaves the queued textures where they are
RealizeQueuedTexturesLater(r) == r

\* process_render_graph, lines 476-479
RECURSIVE RealizeQueuedTextures(_)
RealizeQueuedTextures(r) ==
    IF r.queued_textures = <<>> THEN r
    ELSE LET name == Head(r.queued_textures)[1]
             r1 == create_texture(r, Head(r.queued_textures)[2])
             r2 == set_named_resource(r1, name, r1.ret)
             r3 == Log(r2, [e |-> "queued_texture", name |-> name,
                            descriptor |-> Head(r.queued_textures)[2],
                            resource |-> r1.ret])
         IN  RealizeQueuedTextures([r3 EXCEPT !.queued_textures = Tail(@)])

\* a pipeline loop that leaves the bind groups unbuilt
SetupBindGroupsOfNone(r, bind_groups_left) == r

\* process_render_graph, lines 529-531
RECURSIVE SetupBindGroupsOf(_, _)
SetupBindGroupsOf(r, bind_groups_left) ==
    IF bind_groups_left = <<>> \/ r.panic # "" THEN r
    ELSE SetupBindGroupsOf(setup_bind_group(r, Head(bind_groups_left)),
                           Tail(bind_groups_left))

\* a cache test that never hits
IsCachedNever(r, pipeline_descriptor_handle) == FALSE

\* the pipeline cache, line 502: is there a pipeline object for the handle
IsCached(r, pipeline_descriptor_handle) ==
    pipeline_descriptor_handle \in DOMAIN r.render_pipelines

\* process_render_graph, lines 498-531: one pipeline of the graph
\* a tick that leaves the pipeline and its bind groups unbuilt
BuildPipelineLater(r, pipeline_descriptor_handle) == r

BuildPipeline(r, pipeline_descriptor_handle) ==
    IF pipeline_descriptor_handle \notin DOMAIN r.pipeline_storage
    THEN Panic(r, "pipeline_storage.get_mut: unwrap on None")
    ELSE
    LET pipeline_descriptor == r.pipeline_storage[pipeline_descriptor_handle]
        c == create_render_pipeline(r, pipeline_descriptor,
                                    pipeline_descriptor.shader_stages.vertex,
                                    pipeline_descriptor.shader_stages.fragment)
        r1 == IF IsCached(r, pipeline_descriptor_handle) \/ c.panic # "" THEN
                  (IF IsCached(r, pipeline_descriptor_handle) THEN r ELSE c)
              ELSE [c EXCEPT
                       !.pipeline_storage[pipeline_descriptor_handle] = c.ret.descriptor,
                       !.render_pipelines =
                           Insert(@, pipeline_descriptor_handle, c.ret.pipeline),
                       !.created.render_pipelines = Bump(@, pipeline_descriptor_handle)]
        pipeline_layout == get_layout(r1.pipeline_storage[pipeline_descriptor_handle])
    IN  IF r1.panic # "" THEN r1
        ELSE IF pipeline_layout = None THEN Panic(r1, "get_layout: unwrap on None")
        ELSE SetupBindGroupsOf(r1, pipeline_layout.value.bind_groups)

\* process_render_graph, lines 497-532
RECURSIVE BuildPipelines(_, _)
BuildPipelines(r, handles) ==
    IF handles = <<>> \/ r.panic # "" THEN r
    ELSE BuildPipelines(BuildPipeline(r, Head(handles)), Tail(handles))

\* the texture view an attachment name stands for, or the panic
ResolveAttachment(r, name) ==
    IF name = SWAP_CHAIN THEN [panic |-> "", view |-> [frame |-> "view"]]
    ELSE IF get_named_resource(r, name) = None
    THEN [panic |-> "attachment does not exist"]
    ELSE IF get_named_resource(r, name).value \notin DOMAIN r.textures
    THEN [panic |-> "textures.get: unwrap on None"]
    ELSE [panic |-> "", view |-> r.textures[get_named_resource(r, name).value]]

\* create_wgpu_color_attachment_descriptor
ColorAttachment(r, c) ==
    LET attachment == ResolveAttachment(r, c.attachment)
        resolve_target == IF c.resolve_target = None THEN [panic |-> "", view |-> None]
                          ELSE ResolveAttachment(r, c.resolve_target.value)
    IN  IF attachment.panic # "" THEN attachment
        ELSE IF resolve_target.panic # "" THEN resolve_target
        ELSE [panic |-> "", attachment |-> attachment.view,
              resolve_target |-> resolve_target.view]

\* WgpuRenderer::create_render_pass: the pass opened on the frame's encoder
create_render_pass(r, pass_descriptor) ==
    LET colors == [i \in DOMAIN pass_descriptor.color_attachments |->
                      ColorAttachment(r, pass_descriptor.color_attachments[i])]
        depth == IF pass_descriptor.depth_stencil_attachment = None
                 THEN [panic |-> "", view |-> None]
                 ELSE ResolveAttachment(r,
                          pass_descriptor.depth_stencil_attachment.value.attachment)
        failed == {i \in DOMAIN colors : colors[i].panic # ""}
        first == CHOOSE i \in failed : \A j \in failed : i <= j
    IN  IF failed # {} THEN Panic(r, colors[first].panic)
        ELSE IF depth.panic # "" THEN Panic(r, depth.panic)
        ELSE [r EXCEPT !.render_pass =
                 Some([color_attachments |-> colors,
                       depth_stencil_attachment |-> depth.view,
                       pipeline |-> None, bind_groups |-> EmptyMap])]

\* setup_bind_groups, lines 811-836: the dynamic offsets of one bind group, or
\* the panic
RECURSIVE DynamicUniformIndices(_, _, _, _)
DynamicUniformIndices(r, bindings, entity, indices) ==
    IF bindings = <<>> THEN [panic |-> "", indices |-> indices]
    ELSE LET binding == Head(bindings)
             resource == get_named_resource(r, binding.name)
             info == get_dynamic_uniform_buffer_info(r, resource.value)
         IN  IF binding.bind_type.tag # "Uniform" \/ ~binding.bind_type.dynamic
                \/ resource = None \/ info = None
             THEN DynamicUniformIndices(r, Tail(bindings), entity, indices)
             ELSE IF entity = None THEN [panic |-> "entity: unwrap on None"]
             ELSE IF entity.value \notin DOMAIN info.value.offsets
             THEN [panic |-> "offsets.get: unwrap on None"]
             ELSE DynamicUniformIndices(r, Tail(bindings), entity,
                      Append(indices, info.value.offsets[entity.value]))

\* WgpuRenderPass::setup_bind_groups: every bind group of the descriptor's layout
\* is set on the render pass with its dynamic offsets
RECURSIVE SetBindGroups(_, _, _)
SetBindGroups(r, bind_groups_left, entity) ==
    IF bind_groups_left = <<>> \/ r.panic # "" THEN r
    ELSE
    LET bind_group == Head(bind_groups_left)
        bind_group_id == get_hash(bind_group)
        dynamic_uniform_indices ==
            DynamicUniformIndices(r, bind_group.bindings, entity, <<>>)
    IN  IF bind_group_id = None THEN Panic(r, "get_hash: unwrap on None")
        ELSE IF bind_group_id.value \notin DOMAIN r.bind_groups
        THEN Panic(r, "bind_groups.get: unwrap on None")
        ELSE IF dynamic_uniform_indices.panic # ""
        THEN Panic(r, dynamic_uniform_indices.panic)
        ELSE SetBindGroups(
                 [r EXCEPT !.render_pass.value.bind_groups =
                     Insert(@, bind_group.index,
                            [bind_group |-> r.bind_groups[bind_group_id.value].bind_group,
                             offsets |-> dynamic_uniform_indices.indices])],
                 Tail(bind_groups_left), entity)

setup_bind_groups(r, pipeline_descriptor, entity) ==
    IF get_layout(pipeline_descriptor) = None
    THEN Panic(r, "get_layout: unwrap on None")
    ELSE SetBindGroups(r, get_layout(pipeline_descriptor).value.bind_groups, entity)

\* ------------------------------------------------------------------ inputs

PipelineDescriptor(layout, vertex, fragment, draw_targets) ==
    [layout |-> layout, shader_stages |-> [vertex |-> vertex, fragment |-> fragment],
     primitive_topology |-> "TriangleList", draw_targets |-> draw_targets]

\* a layout written by hand: its second binding is declared dynamic by its author
ExplicitLayout ==
    [bind_groups |->
        <<BindGroup(0, <<Binding("Transform", 0, Uniform(FALSE, 2)),
                         Binding("Camera", 1, Uniform(TRUE, 1))>>)>>]

\* the descriptors layout resolution is tried on
LayoutInputs ==
    {PipelineDescriptor(Reflected(None), "vs_mesh", Some("fs_mesh"), <<>>),
     PipelineDescriptor(Reflected(None), "vs_transform", None, <<>>),
     PipelineDescriptor(Manual(ExplicitLayout), "vs_transform", None, <<>>),
     PipelineDescriptor(Reflected(None), "vs_bad", None, <<>>)}

\* ------------------------------------------------------------------ actions

Idle == [at |-> "idle"]

\* the state after WgpuRenderer::new()
InitRenderer ==
    /\ surface = None
    /\ encoder = None
    /\ swap_chain_descriptor = [width |-> 0, height |-> 0]
    /\ render_pipelines = EmptyMap
    /\ buffers = EmptyMap
    /\ textures = EmptyMap
    /\ resource_info = EmptyMap
    /\ bind_groups = EmptyMap
    /\ bind_group_layouts = EmptyMap
    /\ dynamic_uniform_buffer_info = EmptyMap
    /\ render_resources = [name_to_resource |-> EmptyMap, resource_index |-> 0]
    /\ swap_chain = None
    /\ render_pass = None
    /\ pc = Idle
    /\ fatal = ""
    /\ call = [op |-> "new"]
    /\ returned = <<>>
    /\ held = {}
    /\ removed = {}
    /\ edits = 0
    /\ log = <<>>
    /\ created = [render_pipelines |-> EmptyMap, bind_group_layouts |-> EmptyMap,
                  bind_groups |-> EmptyMap]

\* the fields of r become the state, the call is recorded, and the handler stands
\* at `next` unless it panicked
Commit(result, c, next) ==
    \E r \in {result} :
        /\ surface' = r.surface
        /\ encoder' = r.encoder
        /\ swap_chain_descriptor' = r.swap_chain_descriptor
        /\ render_pipelines' = r.render_pipelines
        /\ buffers' = r.buffers
        /\ textures' = r.textures
        /\ resource_info' = r.resource_info
        /\ bind_groups' = r.bind_groups
        /\ bind_group_layouts' = r.bind_group_layouts
        /\ dynamic_uniform_buffer_info' = r.dynamic_uniform_buffer_info
        /\ render_resources' = r.render_resources
        /\ pipeline_storage' = r.pipeline_storage
        /\ swap_chain' = r.swap_chain
        /\ queued_textures' = r.queued_textures
        /\ render_pass' = r.render_pass
        /\ returned' = r.returned
        /\ held' = r.held
        /\ removed' = r.removed
        /\ edits' = r.edits
        /\ log' = r.log
        /\ created' = r.created
        /\ fatal' = r.panic
        /\ call' = c
        /\ pc' = IF r.panic = "" THEN next ELSE pc

Running == fatal = ""
\* the renderer can be called: by the application between the phases, by a
\* resource provider inside its hook, by a draw target inside its callback
Callable == Running /\ pc.at \in {"idle", "hook", "draw_target"}
CanCreate(max) == Cardinality(held) < max
\* the caller of a creating call keeps the handle it is given
Keep(r) == IF r.panic # "" THEN r ELSE [r EXCEPT !.held = @ \cup {r.ret}]
CanRecord == encoder # None => Len(encoder.value) < MaxCommands
\* the handles a caller can pass: those a creating call returned to it
Issued == held
\* and the one it finds under a name
NamedAs(name) ==
    IF name \in DOMAIN render_resources.name_to_resource
    THEN {render_resources.name_to_resource[name]} ELSE {}

CreateBuffer(size, usage) ==
    /\ Callable
    /\ LET r == Keep(create_buffer(self, size, usage))
       IN  Commit(r, [op |-> "create_buffer", size |-> size, usage |-> usage,
                      ret |-> r.ret], pc)

CreateBufferWithData(data, usage) ==
    /\ Callable
    /\ LET r == Keep(create_buffer_with_data(self, data, usage))
       IN  Commit(r, [op |-> "create_buffer_with_data", data |-> data,
                      usage |-> usage, ret |-> r.ret], pc)

CreateBufferMapped(size, usage) ==
    /\ Callable
    /\ LET r == Keep(create_buffer_mapped(self, size, usage))
       IN  Commit(r, [op |-> "create_buffer_mapped", size |-> size, usage |-> usage,
                      ret |-> r.ret], pc)

CreateInstanceBuffer(mesh_id, size, count, usage) ==
    /\ Callable
    /\ LET r == Keep(create_instance_buffer(self, mesh_id, size, count, usage))
       IN  Commit(r, [op |-> "create_instance_buffer", ret |-> r.ret], pc)

CreateInstanceBufferWithData(mesh_id, data, size, count, usage) ==
    /\ Callable
    /\ LET r == Keep(create_instance_buffer_with_data(self, mesh_id, data, size, count, usage))
       IN  Commit(r, [op |-> "create_instance_buffer_with_data", ret |-> r.ret], pc)

CreateTexture(descriptor) ==
    /\ Callable
    /\ LET r == Keep(create_texture(self, descriptor))
       IN  Commit(r, [op |-> "create_texture", ret |-> r.ret], pc)

\* the call remembers the encoder that was stored when it was made
CreateTextureWithData(descriptor, bytes) ==
    /\ Callable /\ CanRecord
    /\ LET r == Keep(create_texture_with_data(self, descriptor, bytes))
       IN  Commit(r, [op |-> "create_texture_with_data", bytes |-> bytes,
                      before |-> encoder, ret |-> r.ret], pc)

\* the caller's remove call is remembered; `was` is the record the handle had
Removed(r, resource) == [r EXCEPT !.removed = @ \cup {resource}]

RemoveBuffer(resource) ==
    /\ Callable
    /\ Commit(Removed(remove_buffer(self, resource), resource),
              [op |-> "remove_buffer", resource |-> resource,
               was |-> get_resource_info(self, resource)], pc)

RemoveTexture(resource) ==
    /\ Callable
    /\ Commit(Removed(remove_texture(self, resource), resource),
              [op |-> "remove_texture", resource |-> resource,
               was |-> get_resource_info(self, resource)], pc)

SetNamedResource(name, resource) ==
    /\ Callable
    /\ Commit(set_named_resource(self, name, resource),
              [op |-> "set_named_resource", name |-> name, resource |-> resource], pc)

AddDynamicUniformBufferInfo(resource, info) ==
    /\ Callable
    /\ Commit(add_dynamic_uniform_buffer_info(self, resource, info),
              [op |-> "add_dynamic_uniform_buffer_info", resource |-> resource], pc)

CopyBufferToBuffer(source, destination) ==
    /\ Callable /\ CanRecord
    /\ Commit(copy_buffer_to_buffer(self, source, destination),
              [op |-> "copy_buffer_to_buffer", source |-> source,
               destination |-> destination, before |-> encoder], pc)

\* ------------------------------------------------- the registry on its own

\* The registry calls with every argument a caller can pass, on a renderer that
\* is between two phases (no encoder) or inside a resource provider's update
\* hook (the phase's encoder is stored).
InitRegistry ==
    /\ InitRenderer
    /\ pipeline_storage = EmptyMap
    /\ queued_textures = <<>>

RegistryCreate ==
    \/ \E size \in Sizes, usage \in Usages : CreateBuffer(size, usage)
    \/ \E data \in Datas, usage \in Usages : CreateBufferWithData(data, usage)
    \/ \E size \in Sizes, usage \in Usages : CreateBufferMapped(size, usage)
    \/ CreateInstanceBuffer(0, 1, 2, {"VERTEX"})
    \/ CreateInstanceBufferWithData(0, <<0, 0>>, 1, 2, {"VERTEX"})
    \/ \E d \in TextureDescriptors : CreateTexture(d)
    \/ \E d \in TextureDescriptors, bytes \in {None, Some(<<0>>)} :
           CreateTextureWithData(d, bytes)

RegistryCall ==
    \/ CanCreate(MaxHandles) /\ RegistryCreate
    \/ \E h \in Issued : RemoveBuffer(h)
    \/ \E h \in Issued : RemoveTexture(h)
    \/ \E h \in Issued : SetNamedResource("Transform", h)
    \/ \E h \in Issued : AddDynamicUniformBufferInfo(h, Info1)
    \/ \E s \in Issued, d \in Issued : CopyBufferToBuffer(s, d)

SpecRegistry == InitRegistry /\ [][RegistryCall]_vars

\* ------------------------------------------- layout resolution on its own

\* create_render_pipeline called on a descriptor of the storage; the descriptor
\* it leaves is stored back.  The name table and the dynamic uniform buffer
\* infos change between the calls.
CallCreateRenderPipeline(handle) ==
    /\ Callable
    /\ LET d == pipeline_storage[handle]
           r == create_render_pipeline(self, d, d.shader_stages.vertex,
                                       d.shader_stages.fragment)
       IN  Commit(IF r.panic # "" THEN r
                  ELSE [r EXCEPT !.pipeline_storage[handle] = r.ret.descriptor],
                  [op |-> "create_render_pipeline", handle |-> handle, before |-> d,
                   ret |-> r.ret],
                  pc)

\* setup_bind_group called on a bind group of a descriptor's layout, as the
\* pipeline loop calls it (lines 528-531).  The call remembers what it found:
\* whether the key was cached, the registered names, the handles returned so far
CallSetupBindGroup(handle, g) ==
    /\ Callable
    /\ get_layout(pipeline_storage[handle]) # None
    /\ g \in DOMAIN get_layout(pipeline_storage[handle]).value.bind_groups
    /\ \E bind_group \in {get_layout(pipeline_storage[handle]).value.bind_groups[g]} :
       \E r \in {setup_bind_group(self, bind_group)} :
          Commit(r,
                 [op |-> "setup_bind_group", bind_group |-> bind_group,
                  miss |-> /\ get_hash(bind_group) # None
                           /\ get_hash(bind_group).value \notin DOMAIN bind_groups,
                  named |-> DOMAIN render_resources.name_to_resource,
                  returned |-> Len(returned),
                  ret |-> r.ret],
                 pc)

InitLayout ==
    /\ InitRenderer
    /\ \E d \in LayoutInputs : pipeline_storage = [h \in {"p1"} |-> d]
    /\ queued_textures = <<>>

NextLayout ==
    \/ CanCreate(MaxHandles) /\ CreateBuffer(1, UniformUsage)
    \/ \E n \in {"Transform", "Lights"}, h \in Issued : SetNamedResource(n, h)
    \/ \E h \in Issued : AddDynamicUniformBufferInfo(h, Info1)
    \/ \E h \in Issued : RemoveBuffer(h)
    \/ \E p \in DOMAIN pipeline_storage : CallCreateRenderPipeline(p)
    \/ \E p \in DOMAIN pipeline_storage, g \in 1..2 : CallSetupBindGroup(p, g)

SpecLayout == InitLayout /\ [][NextLayout]_vars

\* ------------------------------------------------------- the whole renderer

\* positions of the running handler
Hook(phase, provider, window) ==
    [at |-> "hook", phase |-> phase, provider |-> provider, window |-> window]
Pos(at, pass, pipeline, target) ==
    [at |-> at, pass |-> pass, pipeline |-> pipeline, target |-> target]
Step(at) == [at |-> at]

\* the pipelines assigned to the pass at position p, and the one being bound
PipelinesOf(p) ==
    IF PassNames[p.pass] \in DOMAIN PassPipelines THEN PassPipelines[PassNames[p.pass]]
    ELSE <<>>
HandleAt(p) == PipelinesOf(p)[p.pipeline]

\* where the pass loop stands after pass `pass`, after the pipeline at p, after
\* the draw target at p
AfterPass(pass) ==
    IF pass < Len(PassNames) THEN Pos("pass", pass + 1, 0, 0) ELSE Step("submit")
AfterPipeline(p) ==
    IF p.pipeline < Len(PipelinesOf(p))
    THEN Pos("pipeline", p.pass, p.pipeline + 1, 0)
    ELSE AfterPass(p.pass)
AfterTarget(p, draw_targets) ==
    IF p.target < Len(draw_targets)
    THEN Pos("draw_target", p.pass, p.pipeline, p.target + 1)
    ELSE AfterPipeline(p)
\* the render pass object lives until the pass's iteration ends
ClosePass(r, next) ==
    IF next.at \in {"pass", "submit"} THEN [r EXCEPT !.render_pass = None] ELSE r

\* the encoder of a phase: lines 404-407, 441-444, 465-468
open_encoder(r) == Log([r EXCEPT !.encoder = Some(<<>>)], [e |-> "open_encoder"])

\* the stored encoder is used where it is and stays stored
borrow_encoder(r) ==
    IF r.encoder = None THEN Panic(r, "encoder.take: unwrap on None") ELSE r

\* line 481: the stored encoder is taken out of the renderer
take_encoder(r) ==
    IF r.encoder = None THEN Panic(r, "encoder.take: unwrap on None")
    ELSE [r EXCEPT !.encoder = None]

\* the stored encoder is taken and dropped, nothing is submitted
drop_encoder(r) == take_encoder(r)

\* lines 413-414, 458-459: the stored encoder is taken, finished and submitted
submit_encoder(r) ==
    LET r1 == take_encoder(r)
    IN  IF r1.panic # "" THEN r1 ELSE Log(r1, [e |-> "submit"])

\* a resource provider's hook is called; resize hands it the width and height
HookEvent(phase, provider, window) ==
    [e |-> "hook", phase |-> phase, provider |-> provider, window |-> window]
\* only the first provider's hook is called
call_hook_of_first(r, phase, provider, window) ==
    IF provider > 1 THEN r
    ELSE Log(r, HookEvent(phase, ResourceProviders[provider], window))

call_hook(r, phase, provider, window) ==
    IF provider > Len(ResourceProviders) THEN r
    ELSE Log(r, HookEvent(phase, ResourceProviders[provider], window))

\* resize, lines 441-452: the encoder, the descriptor and the swap chain
create_swap_chain(r, width, height) ==
    LET r1 == [open_encoder(r) EXCEPT
                  !.swap_chain_descriptor = [width |-> width, height |-> height]]
    IN  IF r1.surface = None THEN Panic(r1, "surface: unwrap on None")
        ELSE Log([r1 EXCEPT !.swap_chain = Some(r1.swap_chain_descriptor)],
                 [e |-> "create_swap_chain"])

\* resize, lines 441-455, up to the first provider's resize hook
begin_resize(r, width, height) ==
    LET r1 == create_swap_chain(r, width, height)
    IN  IF r1.panic # "" THEN r1
        ELSE call_hook(r1, "resize", 1, Some([width |-> width, height |-> height]))

\* Renderer::initialize up to the first provider's initialize hook
Initialize(window_size) ==
    /\ Running /\ pc = Idle /\ surface = None
    /\ Commit(call_hook(open_encoder(Log([Called(self) EXCEPT
                                              !.surface = Some("surface")],
                                          [e |-> "surface"])),
                        "initialize", 1, None),
              [op |-> "initialize"], Hook("initialize", 1, Some(window_size)))

\* Renderer::resize up to the first provider's resize hook
Resize(extent) ==
    /\ Running /\ pc = Idle
    /\ Commit(begin_resize(Called(self), extent.width, extent.height),
              [op |-> "resize", width |-> extent.width, height |-> extent.height],
              Hook("resize", 1, Some(extent)))

\* Renderer::process_render_graph up to the first provider's update hook
ProcessRenderGraph ==
    /\ Running /\ pc = Idle
    /\ Commit(call_hook(open_encoder(Called(self)), "update", 1, None),
              [op |-> "process_render_graph"], Hook("update", 1, None))

\* a provider's hook returns and the next provider's hook is called
NextProvider ==
    /\ Running /\ pc.at = "hook" /\ pc.provider < Len(ResourceProviders)
    /\ Commit(call_hook(self, pc.phase, pc.provider + 1,
                        IF pc.phase = "resize" THEN pc.window ELSE None),
              [op |-> "hook_return"], [pc EXCEPT !.provider = @ + 1])

\* initialize_resource_providers ends; initialize goes on with resize
InitializeProvidersDone ==
    /\ Running /\ pc.at = "hook" /\ pc.provider = Len(ResourceProviders)
    /\ pc.phase = "initialize"
    /\ LET r1 == submit_encoder(self)
           r2 == begin_resize(r1, pc.window.value.width, pc.window.value.height)
       IN  Commit(IF r1.panic # "" THEN r1 ELSE r2,
                  [op |-> "resize", width |-> pc.window.value.width,
                   height |-> pc.window.value.height],
                  Hook("resize", 1, pc.window))

\* resize ends
ResizeDone ==
    /\ Running /\ pc.at = "hook" /\ pc.provider = Len(ResourceProviders)
    /\ pc.phase = "resize"
    /\ Commit(submit_encoder(self),
              [op |-> "resize_done", width |-> pc.window.value.width,
               height |-> pc.window.value.height],
              Idle)

\* process_render_graph, lines 474-481: the queued textures are realized and the
\* stored encoder is taken
RealizeTextures ==
    /\ Running /\ pc.at = "hook" /\ pc.provider = Len(ResourceProviders)
    /\ pc.phase = "update"
    /\ Commit(take_encoder(Log(RealizeQueuedTextures(
                                   Log(self, [e |-> "update_shader_assignments"])),
                               [e |-> "queued_textures"])),
              [op |-> "realize_queued_textures", queued |-> queued_textures,
               returned |-> Len(returned)],
              Step("acquire"))

TimeoutMessage == "Timeout when acquiring next swap chain texture"

\* an acquisition that is tried a second time when it timed out
get_next_texture_retrying(r, timeout) ==
    IF r.swap_chain = None THEN Panic(r, "swap_chain: unwrap on None")
    ELSE LET r1 == Log(r, [e |-> "get_next_texture"])
         IN  IF timeout THEN Panic(Log(r1, [e |-> "get_next_texture"]), TimeoutMessage)
             ELSE r1

\* lines 483-486: the swap chain of the World is asked for its next frame, once;
\* the presentation engine answers with the frame or with a timeout
get_next_texture(r, timeout) ==
    IF r.swap_chain = None THEN Panic(r, "swap_chain: unwrap on None")
    ELSE LET r1 == Log(r, [e |-> "get_next_texture"])
         IN  IF timeout THEN Panic(r1, TimeoutMessage) ELSE r1

\* process_render_graph, lines 483-486
AcquireFrame(timeout) ==
    /\ Running /\ pc.at = "acquire"
    /\ Commit(get_next_texture(self, timeout), [op |-> "get_next_texture"], Step("build"))

\* process_render_graph, lines 497-532
BuildAllPipelines(order) ==
    /\ Running /\ pc.at = "build"
    /\ \E r \in {BuildPipelines(self, order)} :
          Commit(IF r.panic # "" THEN r
                 ELSE Log(r, [e |-> "pipelines", handles |-> Range(order)]),
                 [op |-> "build_pipelines"], Pos("pass", 1, 0, 0))

\* process_render_graph, lines 534-537
BeginPass ==
    /\ Running /\ pc.at = "pass"
    /\ LET next == IF Len(PipelinesOf(pc)) > 0 THEN Pos("pipeline", pc.pass, 1, 0)
                   ELSE AfterPass(pc.pass)
           r == create_render_pass(self, PassDescriptors[PassNames[pc.pass]])
       IN  Commit(IF r.panic # "" THEN r
                  ELSE ClosePass(Log(r, [e |-> "pass", name |-> PassNames[pc.pass]]),
                                 next),
                  [op |-> "create_render_pass"], next)

\* lines 539-541: the pipeline object of the cache is set on the pass
set_pipeline(r, pass_pipeline) ==
    IF pass_pipeline \notin DOMAIN r.pipeline_storage
    THEN Panic(r, "pipeline_storage.get: unwrap on None")
    ELSE IF pass_pipeline \notin DOMAIN r.render_pipelines
    THEN Panic(r, "render_pipelines.get: unwrap on None")
    ELSE Log([r EXCEPT !.render_pass.value.pipeline =
                           Some(r.render_pipelines[pass_pipeline])],
             [e |-> "set_pipeline", handle |-> pass_pipeline])

\* the first draw target of every pipeline is called twice
call_draw_target_twice(r, next) ==
    IF next.at # "draw_target" THEN r
    ELSE LET event == [e |-> "draw_target", handle |-> HandleAt(next),
                       name |-> r.pipeline_storage[HandleAt(next)].draw_targets[next.target]]
         IN  IF next.target = 1 THEN Log(Log(r, event), event) ELSE Log(r, event)

\* lines 549-551: the draw target the pass loop stands at after its step is looked
\* up in the graph and called with the pipeline's handle
call_draw_target(r, next) ==
    IF next.at # "draw_target" THEN r
    ELSE LET draw_target_name == r.pipeline_storage[HandleAt(next)].draw_targets[next.target]
         IN  IF draw_target_name \notin DrawTargets
             THEN Panic(r, "draw_targets.get: unwrap on None")
             ELSE Log(r, [e |-> "draw_target", name |-> draw_target_name,
                          handle |-> HandleAt(next)])

\* process_render_graph, lines 538-551, up to the first draw target's call
SetPipeline ==
    /\ Running /\ pc.at = "pipeline"
    /\ LET r == set_pipeline(self, HandleAt(pc))
           next == AfterTarget(pc, pipeline_storage[HandleAt(pc)].draw_targets)
       IN  Commit(IF r.panic # "" THEN r ELSE ClosePass(call_draw_target(r, next), next),
                  [op |-> "set_pipeline", handle |-> HandleAt(pc)], next)

\* a draw target returns
DrawTargetReturn ==
    /\ Running /\ pc.at = "draw_target"
    /\ LET next == AfterTarget(pc, pipeline_storage[HandleAt(pc)].draw_targets)
       IN  Commit(ClosePass(call_draw_target(self, next), next),
                  [op |-> "draw_target_return"], next)

\* a draw target calls RenderPass::setup_bind_groups
SetupBindGroups(entity) ==
    /\ Running /\ pc.at = "draw_target"
    /\ Commit(setup_bind_groups(self, pipeline_storage[HandleAt(pc)], entity),
              [op |-> "setup_bind_groups", handle |-> HandleAt(pc), entity |-> entity],
              pc)

\* process_render_graph, lines 557-558
Submit ==
    /\ Running /\ pc.at = "submit"
    /\ Commit(Log(self, [e |-> "submit"]), [op |-> "submit"], Idle)

\* The application edits a descriptor of the pipeline storage between two frames,
\* after the pipeline object of the handle was built.
OtherLayout ==
    [bind_groups |-> <<BindGroup(0, <<Binding("Camera", 0, Uniform(FALSE, 1))>>)>>]
EditedLayouts == {Reflected(None), Manual(OtherLayout)}

CanEdit(handle) ==
    Running /\ pc = Idle /\ handle \in DOMAIN render_pipelines /\ edits < MaxEdits
Edited(r) == [r EXCEPT !.edits = @ + 1]

EditLayout(handle, layout) ==
    /\ CanEdit(handle)
    /\ pipeline_storage[handle].layout # layout
    /\ Commit([Edited(self) EXCEPT !.pipeline_storage[handle].layout = layout],
              [op |-> "edit_layout", handle |-> handle], pc)

\* the first binding of the first bind group is declared dynamic, in place
EditBinding(handle) ==
    /\ CanEdit(handle)
    /\ get_layout(pipeline_storage[handle]) # None
    /\ ~get_layout(pipeline_storage[handle]).value.bind_groups[1].bindings[1].bind_type.dynamic
    /\ Commit([Edited(self) EXCEPT !.pipeline_storage[handle].layout.layout.value
                               .bind_groups[1].bindings[1].bind_type.dynamic = TRUE],
              [op |-> "edit_binding", handle |-> handle], pc)

EditTopology(handle) ==
    /\ CanEdit(handle)
    /\ pipeline_storage[handle].primitive_topology # "LineList"
    /\ Commit([Edited(self) EXCEPT !.pipeline_storage[handle].primitive_topology = "LineList"],
              [op |-> "edit_topology", handle |-> handle], pc)

\* the layout p2 is given by hand: its first bind group has the structure that
\* reflection finds for p1
ManualLayout ==
    [bind_groups |-> <<BindGroup(0, <<Binding("Transform", 0, Uniform(FALSE, 2))>>),
                       BindGroup(1, <<Binding("Camera", 0, Uniform(FALSE, 1))>>)>>]

\* the textures the graph has queued: two of them under the same name
QueuedTextures == <<<<"shadow", "td">>, <<"depth", "td">>, <<"depth", "td_msaa">>>>

Init ==
    /\ InitRenderer
    /\ pipeline_storage =
           [h \in {"p1", "p2"} |->
               IF h = "p1"
               THEN PipelineDescriptor(Reflected(None), "vs_transform", None, <<"meshes">>)
               ELSE PipelineDescriptor(Manual(ManualLayout), "vs_mesh", None,
                                       <<"meshes", "ui">>)]
    /\ queued_textures = QueuedTextures

\* what resource providers and draw targets call
ProviderCreate ==
    \/ CreateBuffer(2, UniformUsage)
    \/ CreateBufferWithData(<<0, 0>>, UniformUsage)
    \/ CreateBufferMapped(2, UniformUsage)
    \/ CreateInstanceBuffer(0, 1, 2, {"VERTEX"})
    \/ CreateInstanceBufferWithData(0, <<0, 0>>, 1, 2, {"VERTEX"})
    \/ \E d \in TextureDescriptors : CreateTexture(d)
    \/ \E d \in TextureDescriptors : CreateTextureWithData(d, Some(<<0>>))

CallbackCall ==
    \/ CanCreate(MaxProvided) /\ ProviderCreate
    \/ \E h \in held : RemoveTexture(h)
    \/ \E h \in held : SetNamedResource("Transform", h)
    \/ \E h \in held \cup NamedAs("Transform") : AddDynamicUniformBufferInfo(h, Info1)
    \/ \E h \in held \cup NamedAs("Transform") : RemoveBuffer(h)

Next ==
    \/ Initialize([width |-> 800, height |-> 600])
    \/ \E w \in Extents : Resize(w)
    \/ ProcessRenderGraph
    \/ NextProvider
    \/ InitializeProvidersDone
    \/ ResizeDone
    \/ RealizeTextures
    \/ \E timeout \in BOOLEAN : AcquireFrame(timeout)
    \/ \E order \in PipelineOrders : BuildAllPipelines(order)
    \/ BeginPass
    \/ SetPipeline
    \/ \E entity \in {None} \cup {Some(e) : e \in Entities} : SetupBindGroups(entity)
    \/ DrawTargetReturn
    \/ Submit
    \/ pc.at # "idle" /\ CallbackCall
    \/ \E l \in EditedLayouts : EditLayout("p1", l)
    \/ EditBinding("p1")
    \/ EditTopology("p1")

Spec == Init /\ [][Next]_vars

\* --------------------------------------------- initialize and resize alone

\* the sizes a window is resized to
ResizeInputs == Extents \cup {[width |-> 0, height |-> 0]}

\* A provider's hook calls Renderer::resize itself, on the renderer it is handed,
\* with a render graph of its own that has no resource providers: lines 441-452
\* and 458-459 run while the caller's phase is not over.
NestedResizes == Cardinality({i \in DOMAIN log : log[i].e = "nested_resize"})
NestedResize(extent) ==
    /\ Running /\ pc.at = "hook"
    /\ NestedResizes < MaxNested
    /\ LET r1 == create_swap_chain(Log(self, [e |-> "nested_resize"]),
                                   extent.width, extent.height)
       IN  Commit(IF r1.panic # "" THEN r1 ELSE submit_encoder(r1),
                  [op |-> "nested_resize", width |-> extent.width,
                   height |-> extent.height],
                  pc)

NextPhases ==
    \/ \E w \in Extents : Initialize(w)
    \/ \E w \in ResizeInputs : Resize(w)
    \/ NextProvider
    \/ InitializeProvidersDone
    \/ ResizeDone
    \/ pc.at = "hook" /\ CallbackCall
    \/ \E w \in ResizeInputs : NestedResize(w)

SpecPhases == Init /\ [][NextPhases]_vars

\* ------------------------------------------------------- one draw by itself

\* a pass with the frame as its only attachment
DrawPass ==
    [color_attachments |-> <<[attachment |-> SWAP_CHAIN, resolve_target |-> None]>>,
     depth_stencil_attachment |-> None]

\* process_render_graph, lines 536-551, for one pipeline of one pass: the pass is
\* opened, the draw target calls setup_bind_groups on it, and the pass ends.  The
\* call remembers what was set on the pass
Draw(handle, entity) ==
    /\ Callable
    /\ \E r \in {setup_bind_groups(create_render_pass(self, DrawPass),
                                     pipeline_storage[handle], entity)} :
          Commit([r EXCEPT !.render_pass = None],
                 [op |-> "setup_bind_groups", handle |-> handle, entity |-> entity,
                  set |-> r.render_pass.value.bind_groups],
                 pc)

InitDraw == InitLayout

NextDraw ==
    \/ NextLayout
    \/ \E h \in Issued : SetNamedResource("Camera", h)
    \/ \E p \in DOMAIN pipeline_storage, entity \in {None} \cup {Some(e) : e \in Entities} :
          Draw(p, entity)

SpecDraw == InitDraw /\ [][NextDraw]_vars

\* ------------------------------------------------- render passes by themselves

\* the names a pass's attachments are given
AttachmentNames == {SWAP_CHAIN, "depth", "color"}
Attachment(name, resolve_target) ==
    [attachment |-> name, resolve_target |-> resolve_target]
\* the pass descriptors create_render_pass is tried on
PassInputs ==
    {[color_attachments |-> <<Attachment(c, t)>>, depth_stencil_attachment |-> d] :
        c \in {SWAP_CHAIN, "color"},
        t \in {None, Some(SWAP_CHAIN), Some("color")},
        d \in {None, Some([attachment |-> SWAP_CHAIN]), Some([attachment |-> "depth"])}}

\* create_render_pass called on a pass descriptor with the frame and the encoder
\* of its caller; the pass is dropped when the caller is done with it.  The call
\* remembers the descriptor and the pass that was opened
OpenPass(pass_descriptor) ==
    /\ Callable
    /\ \E r \in {create_render_pass(self, pass_descriptor)} :
          Commit([r EXCEPT !.render_pass = None],
                 [op |-> "create_render_pass", pass |-> pass_descriptor,
                  opened |-> r.render_pass],
                 pc)

NextPass ==
    \/ CanCreate(MaxHandles) /\ \E d \in TextureDescriptors : CreateTexture(d)
    \/ CanCreate(MaxHandles) /\ \E d \in TextureDescriptors : CreateTextureWithData(d, None)
    \/ \E h \in Issued : RemoveTexture(h)
    \/ \E n \in AttachmentNames, h \in Issued : SetNamedResource(n, h)
    \/ \E pass_descriptor \in PassInputs : OpenPass(pass_descriptor)

SpecPass == InitRegistry /\ [][NextPass]_vars

\* ------------------------------------------- uploads inside and between phases

\* what the application between two phases and a resource provider inside its
\* hook call to upload data: textures with and without bytes, buffer copies
UploadCall ==
    \/ CanCreate(MaxHandles) /\ CreateBuffer(1, UniformUsage)
    \/ /\ CanCreate(MaxHandles)
       /\ \E d \in TextureDescriptors, bytes \in {None, Some(<<0>>)} :
              CreateTextureWithData(d, bytes)
    \/ \E s \in Issued, d \in Issued : CopyBufferToBuffer(s, d)

NextUploads ==
    \/ Initialize([width |-> 800, height |-> 600])
    \/ \E w \in Extents : Resize(w)
    \/ NextProvider
    \/ InitializeProvidersDone
    \/ ResizeDone
    \/ UploadCall

SpecUploads == Init /\ [][NextUploads]_vars


\* ------------------------------------------------------------- properties

\* C1: right after create_buffer(size, usage) or create_buffer_mapped(size,
\* usage), get_resource_info on the returned handle is Buffer{usage, size};
\* right after create_buffer_with_data(data, usage) it is Buffer{usage, len(data)}
BufferInfoAfterCreate ==
    /\ call.op \in {"create_buffer", "create_buffer_mapped"} =>
           get_resource_info(self, call.ret) = Some(BufferInfo(call.usage, call.size))
    /\ call.op = "create_buffer_with_data" =>
           get_resource_info(self, call.ret) =
               Some(BufferInfo(call.usage, Len(call.data)))

\* a second buffer was created, of another size and usage than the first
BufferInfoAfterCreateSeen ==
    /\ call.op = "create_buffer"
    /\ Len(returned) = 2
    /\ call.ret = returned[2]
    /\ get_resource_info(self, returned[1]) # None
    /\ get_resource_info(self, returned[1]).value.tag = "Buffer"
    /\ get_resource_info(self, returned[1]).value.size # call.size
    /\ get_resource_info(self, returned[1]).value.buffer_usage # call.usage

\* C2: right after remove_buffer(h), get_resource_info(h) is None and h is not a
\* key of buffers
NoInfoAfterRemoveBuffer ==
    call.op = "remove_buffer" =>
        /\ get_resource_info(self, call.resource) = None
        /\ call.resource \notin DOMAIN buffers

\* a buffer that had a record was removed while another buffer stays
NoInfoAfterRemoveBufferSeen ==
    /\ call.op = "remove_buffer"
    /\ call.was # None
    /\ call.was.value.tag = "Buffer"
    /\ DOMAIN buffers # {}

\* C3: every handle a creating call returned (create_buffer, _with_data, _mapped,
\* create_instance_buffer, _with_data, create_texture, create_texture_with_data,
\* and the buffers setup_bind_group allocates) differs from every handle returned
\* before it, removed or not
HandlesNeverReused ==
    \A i, j \in DOMAIN returned : i < j => returned[i] # returned[j]

\* a handle was removed, and handles were returned after it, one of them by the
\* allocation inside setup_bind_group
HandlesNeverReusedSeen ==
    /\ \E i, j \in DOMAIN returned :
          /\ i < j
          /\ returned[i] \in removed
          /\ returned[i] \notin DOMAIN buffers \cup DOMAIN textures
                                   \cup DOMAIN resource_info
    /\ \E k \in DOMAIN bind_groups : bind_groups[k].unset_uniforms # <<>>
    /\ DOMAIN textures # {}

\* C4: no handle is a key of both textures and buffers
TexturesAndBuffersDisjoint ==
    DOMAIN textures \cap DOMAIN buffers = {}

\* both maps hold handles, from the callers and from the renderer itself
TexturesAndBuffersDisjointSeen ==
    /\ Cardinality(DOMAIN textures) > Len(QueuedTextures)
    /\ Cardinality(DOMAIN buffers) >= 2

\* the GPU object stored for a handle matches its ResourceInfo record
MatchesRecord(handle) ==
    LET info == resource_info[handle]
    IN  IF info.tag \in {"Buffer", "InstanceBuffer"}
        THEN handle \in DOMAIN buffers /\ handle \notin DOMAIN textures
        ELSE handle \in DOMAIN textures /\ handle \notin DOMAIN buffers

\* C5: every handle a creating call returned and no remove call was made on has
\* a ResourceInfo record and exactly one stored GPU object matching the record:
\* a buffer for Buffer and InstanceBuffer, a texture view for Texture
EveryHandleHasRecordAndObject ==
    \A h \in Range(returned) \ removed :
        h \in DOMAIN resource_info /\ MatchesRecord(h)

\* once inserted, no entry of the map is removed or replaced in the step
EntriesKept(old, new) ==
    \A k \in DOMAIN old : k \in DOMAIN new /\ new[k] = old[k]

\* no key has had more than one object made for it
MadeOnce(counts) == \A k \in DOMAIN counts : counts[k] <= 1

\* C6: a pipeline object is made at most once per descriptor handle, a
\* bind-group-layout object and a bind-group object at most once per hash, and
\* no step removes or replaces an entry of render_pipelines, bind_group_layouts
\* or bind_groups, whatever set_named_resource and remove_buffer did
CachesMadeOnceAndKept ==
    [][/\ EntriesKept(render_pipelines, render_pipelines')
       /\ EntriesKept(bind_group_layouts, bind_group_layouts')
       /\ EntriesKept(bind_groups, bind_groups')
       /\ MadeOnce(created'.render_pipelines)
       /\ MadeOnce(created'.bind_group_layouts)
       /\ MadeOnce(created'.bind_groups)]_vars

\* the pipelines were set up again, without a panic, after a buffer bound in a
\* cached bind group was removed and its name re-pointed to another handle
CachesMadeOnceAndKeptSeen ==
    /\ call.op = "build_pipelines"
    /\ fatal = ""
    /\ DOMAIN render_pipelines = {"p1", "p2"}
    /\ \E k \in DOMAIN bind_groups :
          \E b \in DOMAIN bind_groups[k].bind_group.bindings :
             LET buffer == bind_groups[k].bind_group.bindings[b].buffer
             IN  /\ buffer \in removed
                 /\ buffer \notin DOMAIN buffers
                 /\ get_named_resource(self, "Transform") \notin {None, Some(buffer)}

\* C7: once a descriptor was edited after its pipeline object was cached, the
\* following ticks ignore the edit: setting up the pipelines and setting them on
\* the pass raise no fatal error, no pipeline, bind-group-layout or bind-group
\* object is made, and the pass binds the pipeline object cached before the edit
EditsIgnored ==
    [][edits > 0 =>
          /\ pc.at \in {"build", "pipeline"} => fatal' = ""
          /\ created' = created
          /\ render_pipelines' = render_pipelines
          /\ call'.op = "set_pipeline" =>
                 render_pass'.value.pipeline = Some(render_pipelines[call'.handle])
      ]_vars

\* create_render_pipeline has just returned on the descriptor call.before
Resolved == call.op = "create_render_pipeline" /\ fatal = ""

\* the bindings of a layout, by bind group and position
BindingsOf(layout) ==
    [g \in DOMAIN layout.bind_groups |-> layout.bind_groups[g].bindings]

\* the binding's name is registered to a resource that has a dynamic uniform
\* buffer info
NamedDynamic(binding) ==
    /\ binding.name \in DOMAIN render_resources.name_to_resource
    /\ render_resources.name_to_resource[binding.name]
           \in DOMAIN dynamic_uniform_buffer_info

\* C8: create_render_pipeline on a descriptor whose layout is Reflected(None)
\* stores Reflected(Some(layout)); called again on the descriptor it left, it
\* reflects no shader, runs no dynamic-flag pass and leaves the stored layout as
\* it was, whatever names and dynamic infos were registered in between
ResolutionIdempotent ==
    /\ Resolved /\ call.before.layout = Reflected(None) =>
           /\ call.ret.descriptor.layout.tag = "Reflected"
           /\ call.ret.descriptor.layout.layout # None
           /\ pipeline_storage[call.handle] = call.ret.descriptor
    /\ Resolved /\ call.before.layout.tag = "Reflected"
                /\ call.before.layout # Reflected(None) =>
           /\ call.ret.reflections = 0
           /\ ~call.ret.flag_pass
           /\ call.ret.descriptor.layout = call.before.layout
           /\ pipeline_storage[call.handle].layout = call.before.layout

\* the second call came after a name of the resolved layout was registered to a
\* resource with a dynamic info: a pass run now would change the layout
ResolutionIdempotentSeen ==
    /\ Resolved
    /\ call.before.layout.tag = "Reflected"
    /\ call.before.layout # Reflected(None)
    /\ \E g \in DOMAIN call.before.layout.layout.value.bind_groups :
          \E b \in DOMAIN call.before.layout.layout.value.bind_groups[g].bindings :
             LET binding == call.before.layout.layout.value.bind_groups[g].bindings[b]
             IN  /\ binding.bind_type.tag = "Uniform"
                 /\ ~binding.bind_type.dynamic
                 /\ NamedDynamic(binding)

\* C9: on a descriptor that carries an explicit layout, create_render_pipeline
\* reflects no shader and leaves every binding of the layout as it was: name,
\* index, bind type and dynamic flag, also of a Uniform binding whose name is
\* registered to a resource with a dynamic info
ExplicitLayoutKept ==
    Resolved /\ call.before.layout.tag = "Manual" =>
        /\ call.ret.reflections = 0
        /\ call.ret.descriptor.layout.tag = "Manual"
        /\ BindingsOf(call.ret.descriptor.layout.layout.value)
               = BindingsOf(call.before.layout.layout.value)
        /\ BindingsOf(pipeline_storage[call.handle].layout.layout.value)
               = BindingsOf(call.before.layout.layout.value)

\* the explicit layout has a Uniform binding that is not dynamic and whose name
\* is registered to a resource with a dynamic info
ExplicitLayoutKeptSeen ==
    /\ Resolved
    /\ call.before.layout.tag = "Manual"
    /\ \E g \in DOMAIN call.before.layout.layout.value.bind_groups :
          \E b \in DOMAIN call.before.layout.layout.value.bind_groups[g].bindings :
             LET binding == call.before.layout.layout.value.bind_groups[g].bindings[b]
             IN  /\ binding.bind_type.tag = "Uniform"
                 /\ ~binding.bind_type.dynamic
                 /\ NamedDynamic(binding)

\* the layout reflection gives for the descriptor, before any flag is set
ReflectedLayout(pipeline_descriptor) ==
    LET stages == Stages(pipeline_descriptor.shader_stages.vertex,
                         pipeline_descriptor.shader_stages.fragment)
    IN  from_shader_layouts([i \in DOMAIN stages |-> reflect_layout(stages[i]).value])

\* C10: after create_render_pipeline on a descriptor whose layout was
\* Reflected(None), every Uniform binding whose name is registered to a resource
\* with a dynamic info is dynamic, and every other binding has the dynamic flag
\* (and the rest) that reflection gave it
DynamicFlagsFollowRegistrations ==
    Resolved /\ call.before.layout = Reflected(None) =>
        LET got == BindingsOf(call.ret.descriptor.layout.layout.value)
            reflected == BindingsOf(ReflectedLayout(call.before))
        IN  /\ DOMAIN got = DOMAIN reflected
            /\ \A g \in DOMAIN got :
                  /\ DOMAIN got[g] = DOMAIN reflected[g]
                  /\ \A b \in DOMAIN got[g] :
                        IF reflected[g][b].bind_type.tag = "Uniform"
                           /\ NamedDynamic(reflected[g][b])
                        THEN got[g][b] = [reflected[g][b] EXCEPT
                                             !.bind_type.dynamic = TRUE]
                        ELSE got[g][b] = reflected[g][b]

\* one resolution made a Uniform binding dynamic, left a Uniform binding whose
\* name is registered to a resource without a dynamic info as it was, and left
\* a binding that is no Uniform as it was though its name has a dynamic info
DynamicFlagsFollowRegistrationsSeen ==
    /\ Resolved
    /\ call.before.layout = Reflected(None)
    /\ LET got == BindingsOf(call.ret.descriptor.layout.layout.value)
           reflected == BindingsOf(ReflectedLayout(call.before))
       IN  /\ \E g \in DOMAIN got : \E b \in DOMAIN got[g] :
                 /\ got[g][b].bind_type.tag = "Uniform"
                 /\ got[g][b].bind_type.dynamic
                 /\ ~reflected[g][b].bind_type.dynamic
           /\ \E g \in DOMAIN got : \E b \in DOMAIN got[g] :
                 /\ got[g][b].bind_type.tag # "Uniform"
                 /\ NamedDynamic(got[g][b])
                 /\ got[g][b] = reflected[g][b]

\* the layout of the descriptor is resolved: reflected and stored
IsResolved(descriptor) ==
    descriptor.layout.tag = "Reflected" /\ descriptor.layout.layout # None

\* C11: a dynamic uniform buffer info registered for a binding's resource after
\* the pipeline's layout was resolved never changes the binding's dynamic flag:
\* no step but the application's own edit changes a resolved layout.  The step
\* that first builds the pipeline does see the registrations made before it in
\* the same tick: a Uniform binding is dynamic then iff reflection says so or its
\* name is registered to a resource with a dynamic info
LateRegistrationNotSeen ==
    [][\A h \in DOMAIN pipeline_storage :
          /\ IsResolved(pipeline_storage[h]) /\ edits' = edits =>
                 pipeline_storage'[h].layout = pipeline_storage[h].layout
          /\ (/\ pipeline_storage[h].layout = Reflected(None)
              /\ h \notin DOMAIN render_pipelines
              /\ h \in DOMAIN render_pipelines') =>
                 LET got == BindingsOf(pipeline_storage'[h].layout.layout.value)
                     reflected == BindingsOf(ReflectedLayout(pipeline_storage[h]))
                 IN  \A g \in DOMAIN got : \A b \in DOMAIN got[g] :
                        got[g][b].bind_type.tag = "Uniform" =>
                            got[g][b].bind_type.dynamic =
                                (\/ reflected[g][b].bind_type.dynamic
                                 \/ NamedDynamic(reflected[g][b]))
      ]_vars

\* a later frame has set up the pipelines again, and a Uniform binding of a
\* resolved layout is not dynamic though its name is by now registered to a
\* resource with a dynamic info
LateRegistrationNotSeenSeen ==
    /\ call.op = "build_pipelines"
    /\ fatal = ""
    /\ edits = 0
    /\ \E h \in DOMAIN render_pipelines :
          /\ IsResolved(pipeline_storage[h])
          /\ \E i \in DOMAIN log : log[i] = [e |-> "pipelines", handles |-> {"p1", "p2"}]
          /\ \E g \in DOMAIN pipeline_storage[h].layout.layout.value.bind_groups :
                \E b \in DOMAIN pipeline_storage[h].layout.layout.value
                                   .bind_groups[g].bindings :
                   LET binding == pipeline_storage[h].layout.layout.value
                                      .bind_groups[g].bindings[b]
                   IN  /\ binding.bind_type.tag = "Uniform"
                       /\ ~binding.bind_type.dynamic
                       /\ NamedDynamic(binding)

\* the bind groups of the layouts of all descriptors of the storage
StoredBindGroups ==
    UNION {Range(pipeline_storage[h].layout.layout.value.bind_groups) :
              h \in {x \in DOMAIN pipeline_storage :
                        pipeline_storage[x].layout.layout # None}}

\* C12: when the pipelines and bind groups of a tick are set up, any two bind
\* groups with the same bindings (names, indices, bind types, dynamic flags), of
\* one pipeline or of two, have the same key and so share one entry of
\* bind_group_layouts and one of bind_groups, and each cache has as many entries
\* as there are different binding lists
SameStructureSameEntry ==
    call.op = "build_pipelines" /\ fatal = "" =>
        /\ \A g1 \in StoredBindGroups : \A g2 \in StoredBindGroups :
              g1.bindings = g2.bindings =>
                  /\ get_hash(g1) = get_hash(g2)
                  /\ get_hash(g1) # None
                  /\ get_hash(g1).value \in DOMAIN bind_group_layouts
                  /\ get_hash(g1).value \in DOMAIN bind_groups
        /\ Cardinality(DOMAIN bind_group_layouts)
               = Cardinality({g.bindings : g \in StoredBindGroups})
        /\ Cardinality(DOMAIN bind_groups)
               = Cardinality({g.bindings : g \in StoredBindGroups})

\* setup_bind_group has just been called and missed the cache
Missed == call.op = "setup_bind_group" /\ call.miss

\* the bindings of the call's bind group that are Uniform and whose name was not
\* registered when the call found them: the first of each name
Unset(bind_group, named) ==
    {b \in DOMAIN bind_group.bindings :
        /\ bind_group.bindings[b].bind_type.tag = "Uniform"
        /\ bind_group.bindings[b].name \notin named
        /\ \A c \in 1..(b - 1) : bind_group.bindings[c].name # bind_group.bindings[b].name}

\* the names of the bindings at the positions, in order
RECURSIVE NamesAt(_, _, _)
NamesAt(bindings, positions, b) ==
    IF b > Len(bindings) THEN <<>>
    ELSE (IF b \in positions THEN <<bindings[b].name>> ELSE <<>>)
         \o NamesAt(bindings, positions, b + 1)

\* what the call did for the unregistered Uniform bindings: one new buffer each,
\* of the declared size, registered under the name; nothing for the others
AllocatedForUnset ==
    LET bindings == call.bind_group.bindings
        unset == Unset(call.bind_group, call.named)
        new == SubSeq(returned, call.returned + 1, Len(returned))
    IN  /\ Len(new) = Cardinality(unset)
        /\ \A b \in unset :
              /\ get_named_resource(self, bindings[b].name) # None
              /\ LET resource == get_named_resource(self, bindings[b].name).value
                 IN  /\ resource \in Range(new)
                     /\ get_resource_info(self, resource) =
                            Some(BufferInfo(UniformUsage, bindings[b].bind_type.size))
                     /\ resource \in DOMAIN buffers
        /\ \A b \in DOMAIN bindings :
              bindings[b].name \in call.named =>
                  get_named_resource(self, bindings[b].name).value \notin Range(new)

\* the bind group was built and cached, with the names of the unregistered
\* bindings as its unset_uniforms
BuiltAndCached ==
    /\ fatal = ""
    /\ call.ret = get_hash(call.bind_group).value
    /\ call.ret \in DOMAIN bind_groups
    /\ bind_groups[call.ret].unset_uniforms =
           NamesAt(call.bind_group.bindings, Unset(call.bind_group, call.named), 1)

\* As C13 is stated: when setup_bind_group misses the cache, every Uniform binding
\* whose name is not registered gets exactly one new buffer of its declared
\* uniform size, registered under the name and listed in the entry's
\* unset_uniforms; registered bindings get none; the bind group is built and
\* cached without error
AutoAllocationAlwaysBuilds ==
    Missed /\ Unset(call.bind_group, call.named) # {} =>
        AllocatedForUnset /\ BuiltAndCached

\* every binding of the call's bind group can be bound: it is Uniform, and its
\* name, if it was registered, names a buffer with a ResourceInfo::Buffer record
Bindable ==
    \A b \in DOMAIN call.bind_group.bindings :
        LET binding == call.bind_group.bindings[b]
            named == get_named_resource(self, binding.name)
        IN  /\ binding.bind_type.tag = "Uniform"
            /\ binding.name \in call.named =>
                   /\ get_resource_info(self, named.value) # None
                   /\ get_resource_info(self, named.value).value.tag = "Buffer"
                   /\ named.value \in DOMAIN buffers

\* the call failed and cached nothing under the bind group's key
FailedUncached ==
    /\ fatal # ""
    /\ get_hash(call.bind_group).value \notin DOMAIN bind_groups

\* C13: when setup_bind_group misses the cache and a Uniform binding's name is
\* not registered, then, if every binding of the group is Uniform and every
\* registered name names a buffer with a Buffer record, each such binding gets
\* exactly one new buffer of its declared uniform size, registered under the name
\* and listed in the entry's unset_uniforms, registered bindings get none, and
\* the bind group is built and cached without error; otherwise the call is
\* fatal and caches nothing
AutoAllocationBuilds ==
    Missed /\ Unset(call.bind_group, call.named) # {} =>
        IF Bindable THEN AllocatedForUnset /\ BuiltAndCached ELSE FailedUncached

\* a miss with an unregistered Uniform binding, built and cached
AutoAllocationBuildsSeen ==
    /\ Missed /\ Bindable /\ BuiltAndCached
    /\ Unset(call.bind_group, call.named) # {}
    /\ \E b \in DOMAIN call.bind_group.bindings :
          call.bind_group.bindings[b].name \in call.named

\* a miss that allocated a buffer and then failed on a removed buffer's name
AutoAllocationFailedSeen ==
    /\ Missed /\ Unset(call.bind_group, call.named) # {} /\ FailedUncached
    /\ \A b \in DOMAIN call.bind_group.bindings :
          call.bind_group.bindings[b].bind_type.tag = "Uniform"

\* some binding of the call's bind group that is not Uniform had no registered name
UnregisteredOther ==
    \E b \in DOMAIN call.bind_group.bindings :
        /\ call.bind_group.bindings[b].bind_type.tag # "Uniform"
        /\ call.bind_group.bindings[b].name \notin call.named

\* As C14 is stated: a setup_bind_group that misses the cache is fatal exactly
\* when a binding that is not Uniform has no registered name, and then caches
\* nothing; with all such names registered the bind group is built and cached
FatalOnlyForUnregistered ==
    Missed =>
        /\ fatal # "" <=> UnregisteredOther
        /\ IF UnregisteredOther THEN FailedUncached ELSE BuiltAndCached

\* C14: a setup_bind_group that misses the cache is fatal exactly when the bind
\* group has a binding that is not Uniform, with its name registered or not, or
\* a registered name whose resource has no Buffer record or no buffer; then it
\* caches nothing under the key; every other bind group is built and cached
\* without a fatal error
FatalForUnsupported ==
    Missed =>
        /\ fatal # "" <=> ~Bindable
        /\ IF Bindable THEN BuiltAndCached ELSE FailedUncached

\* a miss on a bind group whose only binding that is not Uniform was registered
FatalForUnsupportedSeen ==
    /\ Missed /\ FailedUncached /\ ~UnregisteredOther
    /\ fatal = "unsupported bind type"

\* the dynamic offsets the bindings flagged dynamic have for the entity, in
\* declaration order: for each, the offset of the entity in the dynamic info of
\* the resource its name resolves to now, or None where there is none
RECURSIVE OffsetsOf(_, _)
OffsetsOf(bindings, entity) ==
    IF bindings = <<>> THEN <<>>
    ELSE LET binding == Head(bindings)
             resource == get_named_resource(self, binding.name)
             info == IF resource = None THEN None
                     ELSE get_dynamic_uniform_buffer_info(self, resource.value)
             offset == IF info = None \/ entity = None THEN None
                       ELSE Get(info.value.offsets, entity.value)
         IN  (IF binding.bind_type.dynamic THEN <<offset>> ELSE <<>>)
             \o OffsetsOf(Tail(bindings), entity)

\* C15: after a setup_bind_groups call, the offsets set with each bind group are
\* one for every binding flagged dynamic, in declaration order, each the offset
\* of the entity in the dynamic info of the resource the name resolves to now
OffsetsForEveryDynamicBinding ==
    call.op = "setup_bind_groups" /\ fatal = "" =>
        \A bind_group \in Range(get_layout(pipeline_storage[call.handle]).value.bind_groups) :
            LET set == call.set[bind_group.index].offsets
            IN  [k \in DOMAIN set |-> Some(set[k])]
                    = OffsetsOf(bind_group.bindings, call.entity)

\* a binding of the bind group is flagged dynamic and its name resolves to a
\* resource with dynamic info that has no offset for the entity
LacksOffset(bind_group, entity) ==
    \E b \in DOMAIN bind_group.bindings :
        LET binding == bind_group.bindings[b]
            named == render_resources.name_to_resource
        IN  /\ binding.bind_type.dynamic
            /\ binding.name \in DOMAIN named
            /\ named[binding.name] \in DOMAIN dynamic_uniform_buffer_info
            /\ \/ entity = None
               \/ entity.value \notin
                      DOMAIN dynamic_uniform_buffer_info[named[binding.name]].offsets

\* C16: a setup_bind_groups call is fatal, and sets nothing for the bind group,
\* whenever a binding of the group flagged dynamic resolves to a resource whose
\* dynamic info has no offset for the call's entity
MissingOffsetIsFatal ==
    call.op = "setup_bind_groups" /\ get_layout(pipeline_storage[call.handle]) # None =>
        \A bind_group \in Range(get_layout(pipeline_storage[call.handle]).value.bind_groups) :
            LacksOffset(bind_group, call.entity) =>
                fatal # "" /\ bind_group.index \notin DOMAIN call.set

\* an entity without an offset met a dynamic binding whose bind group was cached
MissingOffsetIsFatalSeen ==
    /\ call.op = "setup_bind_groups"
    /\ call.entity = Some("e2")
    /\ fatal = "offsets.get: unwrap on None"
    /\ \E bind_group \in Range(get_layout(pipeline_storage[call.handle]).value.bind_groups) :
          /\ LacksOffset(bind_group, call.entity)
          /\ get_hash(bind_group).value \in DOMAIN bind_groups
          /\ bind_group.index \notin DOMAIN call.set

\* the hook calls of a phase in the log, in order
IsHook(event, phase) == event.e = "hook" /\ event.phase = phase
RECURSIVE HooksOf(_, _)
HooksOf(events, phase) ==
    IF events = <<>> THEN <<>>
    ELSE (IF IsHook(Head(events), phase) THEN <<Head(events)>> ELSE <<>>)
         \o HooksOf(Tail(events), phase)

\* every provider's hook of the phase once, in registration order
EveryProviderOnce(phase, window) ==
    [p \in DOMAIN ResourceProviders |-> HookEvent(phase, ResourceProviders[p], window)]

\* C17: when a resize(width, height) has returned, the swap-chain descriptor has
\* that width and height, and the resize hook of every provider was called
\* exactly once with them, in registration order
ResizeReachesEveryProvider ==
    call.op = "resize_done" /\ fatal = "" =>
        LET size == [width |-> call.width, height |-> call.height]
        IN  /\ swap_chain_descriptor = size
            /\ swap_chain = Some(size)
            /\ HooksOf(log, "resize") = EveryProviderOnce("resize", Some(size))

\* a resize to (0, 0) returned: it came after the resize of initialize
ResizeReachesEveryProviderSeen ==
    /\ call.op = "resize_done" /\ fatal = ""
    /\ call.width = 0 /\ call.height = 0
    /\ Len(HooksOf(log, "resize")) = Len(ResourceProviders)

\* the running call is initialize
Initializing == log # <<>> /\ log[1].e = "surface"

\* what initialize does, in order, for a window of the size
InitializeSteps(size) ==
    <<[e |-> "surface"], [e |-> "open_encoder"]>>
    \o EveryProviderOnce("initialize", None)
    \o <<[e |-> "submit"], [e |-> "open_encoder"], [e |-> "create_swap_chain"]>>
    \o EveryProviderOnce("resize", Some(size))
    \o <<[e |-> "submit"]>>

\* C18: an initialize that has returned attached the surface, opened an encoder,
\* called every provider's initialize hook once, submitted, and then resized
\* once to the window's size; and at no moment of an initialize was a resize
\* hook called before every initialize hook had been called and the encoder of
\* the initialize hooks submitted
InitializeInOrder ==
    Initializing =>
        /\ call.op = "resize_done" /\ fatal = "" =>
               log = InitializeSteps([width |-> call.width, height |-> call.height])
        /\ \A i \in DOMAIN log :
              IsHook(log[i], "resize") =>
                  /\ HooksOf(SubSeq(log, 1, i - 1), "initialize")
                         = EveryProviderOnce("initialize", None)
                  /\ \E j \in 1..(i - 1) :
                        /\ log[j].e = "submit"
                        /\ \A k \in DOMAIN log : IsHook(log[k], "initialize") => k < j

\* an initialize has returned
InitializeInOrderSeen ==
    /\ Initializing /\ call.op = "resize_done" /\ fatal = ""
    /\ swap_chain = Some([width |-> 1024, height |-> 768])
    /\ Len(HooksOf(log, "initialize")) = Len(ResourceProviders)

\* the running call is process_render_graph
Ticking == Len(log) >= 2 /\ IsHook(log[2], "update")

\* the steps of the running tick, without the single queued textures and what
\* is done inside a pass
TickLog ==
    SelectSeq(log, LAMBDA event :
                       event.e \notin {"queued_texture", "set_pipeline", "draw_target"})

\* what a tick does, in order
RECURSIVE PassSteps(_)
PassSteps(pass) ==
    IF pass > Len(PassNames) THEN <<>>
    ELSE <<[e |-> "pass", name |-> PassNames[pass]]>> \o PassSteps(pass + 1)
TickSteps ==
    <<[e |-> "open_encoder"]>>
    \o EveryProviderOnce("update", None)
    \o <<[e |-> "update_shader_assignments"], [e |-> "queued_textures"],
         [e |-> "get_next_texture"],
         [e |-> "pipelines", handles |-> DOMAIN pipeline_storage]>>
    \o PassSteps(1)
    \o <<[e |-> "submit"]>>

\* C19: a tick does its steps in this order: the update hooks, the shader
\* assignments, the queued textures, the frame, the pipelines and bind groups of
\* every pipeline of the graph, the passes, and one submission, which is last;
\* no pass is opened before the pipeline object of every pipeline is built, and
\* a tick that succeeded submitted exactly once
TickInOrder ==
    Ticking =>
        /\ SubSeq(TickSteps, 1, Len(TickLog)) = TickLog
        /\ call.op = "submit" /\ fatal = "" => TickLog = TickSteps
        /\ (\E i \in DOMAIN log : log[i].e = "pass") =>
               \A handle \in DOMAIN pipeline_storage : handle \in DOMAIN render_pipelines

\* a tick succeeded
TickInOrderSeen ==
    /\ Ticking /\ call.op = "submit" /\ fatal = ""
    /\ Cardinality({i \in DOMAIN log : log[i].e = "submit"}) = 1
    /\ \A handle \in DOMAIN pipeline_storage : handle \in DOMAIN render_pipelines

\* C20: no encoder is opened while the encoder of an earlier phase is
\* outstanding without a fatal error: between two encoders opened in the steps of
\* a call that has not failed, the first was finished and submitted
OneEncoderAtATime ==
    fatal = "" =>
        \A i, j \in DOMAIN log :
            i < j /\ log[i].e = "open_encoder" /\ log[j].e = "open_encoder" =>
                \E k \in (i + 1)..(j - 1) : log[k].e = "submit"

\* the attachment names of a pass descriptor
NamesOfPass(pass_descriptor) ==
    {pass_descriptor.color_attachments[i].attachment :
        i \in DOMAIN pass_descriptor.color_attachments}
    \cup {pass_descriptor.color_attachments[i].resolve_target.value :
            i \in {j \in DOMAIN pass_descriptor.color_attachments :
                      pass_descriptor.color_attachments[j].resolve_target # None}}
    \cup (IF pass_descriptor.depth_stencil_attachment = None THEN {}
          ELSE {pass_descriptor.depth_stencil_attachment.value.attachment})

\* the view the claim gives a name: the frame's for "swap_chain", the view of the
\* registered handle for another name
FrameView == [frame |-> "view"]
ViewOf(name) ==
    IF name = SWAP_CHAIN THEN Some(FrameView)
    ELSE Get(textures, render_resources.name_to_resource[name])
Registered(name) == name \in DOMAIN render_resources.name_to_resource

\* the pass that was opened has the claim's view at every attachment
OpenedWithViews ==
    LET pass_descriptor == call.pass
        opened == call.opened
    IN  /\ fatal = "" /\ opened # None
        /\ \A i \in DOMAIN pass_descriptor.color_attachments :
              LET c == pass_descriptor.color_attachments[i]
              IN  /\ Some(opened.value.color_attachments[i].attachment)
                         = ViewOf(c.attachment)
                  /\ IF c.resolve_target = None
                     THEN opened.value.color_attachments[i].resolve_target = None
                     ELSE Some(opened.value.color_attachments[i].resolve_target)
                              = ViewOf(c.resolve_target.value)
        /\ IF pass_descriptor.depth_stencil_attachment = None
           THEN opened.value.depth_stencil_attachment = None
           ELSE Some(opened.value.depth_stencil_attachment)
                    = ViewOf(pass_descriptor.depth_stencil_attachment.value.attachment)

\* C21: As C21 is stated: a pass whose names other than "swap_chain" are all
\* registered is opened with the frame's view for "swap_chain" and the texture
\* view of the registered handle for every other name, whatever call created
\* the handle; a pass with an unregistered name is fatal
AttachmentsResolve ==
    call.op = "create_render_pass" /\ "pass" \in DOMAIN call =>
        IF \A name \in NamesOfPass(call.pass) \ {SWAP_CHAIN} : Registered(name)
        THEN OpenedWithViews
        ELSE fatal # ""

\* every registered name of the pass names a handle that has a texture view
NamedViewsKept ==
    \A name \in NamesOfPass(call.pass) \ {SWAP_CHAIN} :
        Registered(name) => render_resources.name_to_resource[name] \in DOMAIN textures

\* apart from handles without a view, the attachments resolve as C21 says
AttachmentsResolveToKeptViews ==
    call.op = "create_render_pass" /\ "pass" \in DOMAIN call /\ NamedViewsKept =>
        IF \A name \in NamesOfPass(call.pass) \ {SWAP_CHAIN} : Registered(name)
        THEN OpenedWithViews
        ELSE fatal # ""

\* a pass was opened on a texture registered under "swap_chain" and under "color"
AttachmentsResolveToKeptViewsSeen ==
    /\ call.op = "create_render_pass" /\ "pass" \in DOMAIN call /\ fatal = ""
    /\ Registered(SWAP_CHAIN) /\ Registered("color")
    /\ call.opened.value.color_attachments[1].attachment
           = textures[render_resources.name_to_resource["color"]]
    /\ call.opened.value.color_attachments[1].resolve_target = FrameView

\* what the pass loop does for the pipelines of a pass from the i-th on, and for
\* the passes from `pass` on: each pipeline is set and then its descriptor's
\* draw targets are called, in order
DrawTargetSteps(handle) ==
    [t \in DOMAIN pipeline_storage[handle].draw_targets |->
        [e |-> "draw_target", name |-> pipeline_storage[handle].draw_targets[t],
         handle |-> handle]]
RECURSIVE PipelineSteps(_, _)
PipelineSteps(pass_pipelines, i) ==
    IF i > Len(pass_pipelines) THEN <<>>
    ELSE <<[e |-> "set_pipeline", handle |-> pass_pipelines[i]]>>
         \o DrawTargetSteps(pass_pipelines[i])
         \o PipelineSteps(pass_pipelines, i + 1)
RECURSIVE PassLoopSteps(_)
PassLoopSteps(pass) ==
    IF pass > Len(PassNames) THEN <<>>
    ELSE <<[e |-> "pass", name |-> PassNames[pass]]>>
         \o PipelineSteps(PipelinesOf([pass |-> pass]), 1)
         \o PassLoopSteps(pass + 1)

\* what the pass loop of the running tick did so far
PassLoopLog ==
    SelectSeq(log, LAMBDA event : event.e \in {"pass", "set_pipeline", "draw_target"})

\* C22: the pass loop of a tick opens every pass in order, sets every pipeline
\* assigned to it in order, and calls every draw target of the pipeline's
\* descriptor once, after the pipeline was set on the open pass; a pass without
\* pipelines is opened and no draw target is called for it
DrawTargetsOncePerPipeline ==
    Ticking =>
        /\ PassLoopLog = SubSeq(PassLoopSteps(1), 1, Len(PassLoopLog))
        /\ call.op = "submit" /\ fatal = "" => PassLoopLog = PassLoopSteps(1)
        /\ pc.at = "draw_target" =>
               /\ render_pass # None
               /\ render_pass.value.pipeline = Some(render_pipelines[HandleAt(pc)])
               /\ log[Len(log)] =
                      [e |-> "draw_target", handle |-> HandleAt(pc),
                       name |-> pipeline_storage[HandleAt(pc)].draw_targets[pc.target]]

\* a tick succeeded: the pass without pipelines was opened last, and the three
\* draw targets of the two pipelines of the first pass were called
DrawTargetsOncePerPipelineSeen ==
    /\ Ticking /\ call.op = "submit" /\ fatal = ""
    /\ Cardinality({i \in DOMAIN log : log[i].e = "draw_target"}) = 3
    /\ PassLoopLog[Len(PassLoopLog)] = [e |-> "pass", name |-> "ui"]

\* C23: create_texture_with_data with bytes is fatal when no encoder is stored
\* and records one buffer-to-texture copy into the stored encoder when there is
\* one; without bytes it records nothing and succeeds either way;
\* copy_buffer_to_buffer is fatal when no encoder is stored
UploadsNeedEncoder ==
    /\ call.op = "create_texture_with_data" /\ call.bytes # None =>
           IF call.before = None
           THEN fatal # "" /\ encoder = None
           ELSE /\ fatal = ""
                /\ encoder = Some(Append(call.before.value, "copy_buffer_to_texture"))
    /\ call.op = "create_texture_with_data" /\ call.bytes = None =>
           /\ fatal = ""
           /\ encoder = call.before
           /\ get_resource_info(self, call.ret) = Some(TextureInfo)
    /\ call.op = "copy_buffer_to_buffer" /\ call.before = None =>
           fatal # "" /\ encoder = None

\* a provider's hook uploaded a texture: the copy is the phase's only command
UploadsNeedEncoderSeen ==
    /\ call.op = "create_texture_with_data" /\ call.bytes # None
    /\ pc.at = "hook" /\ fatal = ""
    /\ call.before = Some(<<>>)
    /\ encoder = Some(<<"copy_buffer_to_texture">>)

\* the other cases: bytes between two phases, no bytes between two phases and
\* inside a hook, a copy between two existing buffers between two phases
UploadWithoutEncoderSeen ==
    /\ call.op = "create_texture_with_data" /\ call.bytes # None
    /\ pc.at = "idle" /\ fatal # ""
TextureWithoutBytesSeen ==
    /\ call.op = "create_texture_with_data" /\ call.bytes = None
    /\ pc.at = "idle" /\ Len(returned) = 2
TextureWithoutBytesInHookSeen ==
    /\ call.op = "create_texture_with_data" /\ call.bytes = None
    /\ pc.at = "hook" /\ encoder = Some(<<>>)
CopyWithoutEncoderSeen ==
    /\ call.op = "copy_buffer_to_buffer" /\ call.before = None
    /\ call.source \in DOMAIN buffers /\ call.destination \in DOMAIN buffers
    /\ call.source # call.destination
    /\ fatal = "copy_buffer_to_buffer: no encoder"

\* the events of the kinds in the log of the running call
EventsOf(kinds) == {i \in DOMAIN log : log[i].e \in kinds}
\* a step builds a pipeline object, a bind group layout or a bind group
Builds ==
    \/ created' # created
    \/ render_pipelines' # render_pipelines
    \/ bind_group_layouts' # bind_group_layouts
    \/ bind_groups' # bind_groups

\* C24: a tick whose frame acquisition timed out is over: it asked for the
\* frame once, nothing runs after the failure, and it built no pipeline or bind
\* group, opened no pass, called no draw target and submitted nothing; pipelines
\* and bind groups are built only by the step that follows a frame that was
\* acquired
TimeoutAbortsTick ==
    /\ [](fatal = TimeoutMessage =>
             /\ Ticking /\ pc.at = "acquire"
             /\ EventsOf({"get_next_texture"}) = {Len(log)}
             /\ EventsOf({"pipelines", "pass", "set_pipeline", "draw_target",
                          "submit"}) = {}
             /\ render_pass = None
             /\ encoder = None)
    /\ [][fatal = ""]_vars
    /\ [][Builds => /\ pc.at = "build"
                    /\ EventsOf({"get_next_texture"}) = {Len(log)}]_vars

\* the frame of the second tick timed out: the pipelines of the first tick are
\* all there is
TimeoutAbortsTickSeen ==
    /\ fatal = TimeoutMessage /\ Ticking
    /\ DOMAIN render_pipelines = DOMAIN pipeline_storage
    /\ \A handle \in DOMAIN render_pipelines : created.render_pipelines[handle] = 1
    /\ queued_textures = <<>>

\* the queued textures the running tick realized, in order
Realized == SelectSeq(log, LAMBDA event : event.e = "queued_texture")
\* the i-th of them is the last one of its name
LastOfName(i) == \A j \in DOMAIN Realized : j > i => Realized[j].name # Realized[i].name

\* C25: the tick realizes every queued texture once, in queue order, into a
\* handle no call returned before, and leaves the queue empty; every queued name
\* is registered to the handle of the last texture queued under it; and the
\* pass of the same tick that names a queued texture as its depth attachment is
\* opened on the view of that handle
QueuedTexturesRealized ==
    /\ call.op = "realize_queued_textures" /\ fatal = "" =>
           /\ queued_textures = <<>>
           /\ Len(Realized) = Len(call.queued)
           /\ \A i \in DOMAIN Realized :
                 /\ Realized[i].name = call.queued[i][1]
                 /\ Realized[i].descriptor = call.queued[i][2]
                 /\ Realized[i].resource = returned[call.returned + i]
                 /\ Realized[i].resource \notin Range(SubSeq(returned, 1, call.returned))
                 /\ \A j \in DOMAIN Realized : j # i =>
                       Realized[j].resource # Realized[i].resource
                 /\ Get(textures, Realized[i].resource)
                        = Some(GpuTextureView(Realized[i].descriptor))
                 /\ LastOfName(i) =>
                        get_named_resource(self, Realized[i].name)
                            = Some(Realized[i].resource)
    /\ Ticking /\ call.op = "submit" /\ fatal = "" => queued_textures = <<>>
    /\ Ticking /\ pc.at \in {"pipeline", "draw_target"} /\ PassNames[pc.pass] = "main" =>
           \A i \in DOMAIN Realized :
               Realized[i].name = "depth" /\ LastOfName(i) =>
                   /\ render_pass # None
                   /\ render_pass.value.depth_stencil_attachment
                          = GpuTextureView(Realized[i].descriptor)

\* the first tick succeeded: the name queued twice stands for the second texture
QueuedTexturesRealizedSeen ==
    /\ Ticking /\ call.op = "submit" /\ fatal = ""
    /\ Len(Realized) = 3
    /\ Realized[2].name = Realized[3].name
    /\ get_named_resource(self, "depth") = Some(Realized[3].resource)
    /\ get_named_resource(self, "shadow") = Some(Realized[1].resource)

\* the pass of the first tick is open on the texture queued last under "depth"
QueuedTextureAttachedSeen ==
    /\ Ticking /\ pc.at = "draw_target" /\ PassNames[pc.pass] = "main"
    /\ Len(Realized) = 3
    /\ render_pass.value.depth_stencil_attachment = GpuTextureView("td_msaa")

\* an encoder-requiring registry call: a texture with bytes, a buffer copy
NeedsEncoder ==
    \/ call.op = "create_texture_with_data" /\ call.bytes # None
    \/ call.op = "copy_buffer_to_buffer"

\* C26: an encoder is stored only while a phase's resource-provider hooks run
\* (the queued textures are realized in the step that ends the update hooks);
\* none is stored before initialize, between two phases, or while a tick
\* acquires its frame, builds its pipelines, runs its passes and draw targets
\* and submits (a phase that failed has not returned); so an encoder-requiring
\* registry call of a draw target is fatal
EncoderOnlyInHooks ==
    /\ fatal = "" /\ encoder # None => pc.at = "hook"
    /\ fatal = "" /\ pc.at \in {"idle", "acquire", "build", "pass", "pipeline",
                                 "draw_target", "submit"} => encoder = None
    /\ pc.at \in {"acquire", "build", "pass", "pipeline", "draw_target", "submit"} =>
           encoder = None
    /\ NeedsEncoder /\ pc.at = "draw_target" => call.before = None /\ fatal # ""

\* a draw target tried to upload a texture
EncoderOnlyInHooksSeen ==
    /\ NeedsEncoder /\ pc.at = "draw_target"
    /\ fatal = "create_texture_with_data: no encoder"
    /\ encoder = None

\* the bind groups of the layout of the pipeline the pass loop stands at
BoundGroups == Range(get_layout(pipeline_storage[HandleAt(pc)]).value.bind_groups)

\* every key of the bind groups is a key of the bind group layouts
BindGroupsHaveLayouts == DOMAIN bind_groups \subseteq DOMAIN bind_group_layouts

\* C27: while a draw target of a pipeline runs (and so when it calls
\* setup_bind_groups), the pipeline cache has the pipeline's handle and every
\* bind group of its layout has a computed hash that is a key of the bind group
\* layouts and of the bind groups; and in every state every key of the bind
\* groups is a key of the bind group layouts
CachesReadyForDraw ==
    /\ BindGroupsHaveLayouts
    /\ pc.at = "draw_target" =>
           /\ HandleAt(pc) \in DOMAIN render_pipelines
           /\ get_layout(pipeline_storage[HandleAt(pc)]) # None
           /\ \A bind_group \in BoundGroups :
                 /\ get_hash(bind_group) # None
                 /\ get_hash(bind_group).value \in DOMAIN bind_group_layouts
                 /\ get_hash(bind_group).value \in DOMAIN bind_groups
    /\ call.op = "setup_bind_groups" => pc.at = "draw_target" /\ call.handle = HandleAt(pc)

\* a draw target called setup_bind_groups for a pipeline whose descriptor was
\* edited after it was built: the hash of its bind group is not the hash of its
\* bindings any more
CachesReadyForDrawSeen ==
    /\ call.op = "setup_bind_groups" /\ fatal = "" /\ pc.at = "draw_target"
    /\ edits > 0
    /\ \E bind_group \in BoundGroups :
          get_hash(bind_group) # Some(HashBindings(bind_group.bindings))
    /\ Cardinality(DOMAIN bind_groups) >= 2

\* the map `after` is the map `before` except, at most, for a lost entry of k
OnlyLost(after, before, k) ==
    /\ DOMAIN before \ {k} \subseteq DOMAIN after
    /\ DOMAIN after \subseteq DOMAIN before
    /\ \A x \in DOMAIN after : after[x] = before[x]

\* a step is a call of remove_buffer or remove_texture
Removing == call'.op \in {"remove_buffer", "remove_texture"}
\* the handle is in none of the registry's maps
Absent(resource) ==
    /\ resource \notin DOMAIN buffers
    /\ resource \notin DOMAIN textures
    /\ resource \notin DOMAIN resource_info

\* C28: remove_buffer(h) and remove_texture(h) take nothing but entries of h
\* out of buffers, textures and resource_info; the name table, the dynamic
\* uniform buffer infos and the three caches stay as they are, so a name
\* registered to h still stands for h; and nothing changes when h has no entry
RemovalTouchesOnlyItsHandle ==
    [][Removing =>
          /\ OnlyLost(buffers', buffers, call'.resource)
          /\ OnlyLost(textures', textures, call'.resource)
          /\ OnlyLost(resource_info', resource_info, call'.resource)
          /\ render_resources' = render_resources
          /\ \A name \in DOMAIN render_resources.name_to_resource :
                Get(render_resources'.name_to_resource, name)
                    = Some(render_resources.name_to_resource[name])
          /\ dynamic_uniform_buffer_info' = dynamic_uniform_buffer_info
          /\ render_pipelines' = render_pipelines
          /\ bind_group_layouts' = bind_group_layouts
          /\ bind_groups' = bind_groups
          /\ Absent(call'.resource) =>
                 /\ buffers' = buffers
                 /\ textures' = textures
                 /\ resource_info' = resource_info]_vars

\* a buffer was removed that a name stands for, that has dynamic offsets and
\* that a cached bind group refers to
RemovalTouchesOnlyItsHandleSeen ==
    /\ call.op = "remove_buffer" /\ call.was # None /\ fatal = ""
    /\ call.resource \notin DOMAIN buffers
    /\ get_named_resource(self, "Transform") = Some(call.resource)
    /\ call.resource \in DOMAIN dynamic_uniform_buffer_info
    /\ \E key \in DOMAIN bind_groups :
          \E b \in DOMAIN bind_groups[key].bind_group.bindings :
             bind_groups[key].bind_group.bindings[b].buffer = call.resource

\* that no texture with a name is removed, and no handle without any entry: both
\* are refuted, the two kinds of removal happen
NoNamedTextureRemoved ==
    [][~(/\ call'.op = "remove_texture"
         /\ call'.resource \in DOMAIN textures
         /\ call'.resource \in Range(render_resources.name_to_resource))]_vars
NoAbsentHandleRemoved == [][~(Removing /\ Absent(call'.resource))]_vars

====
